---------------------------- MODULE Spec2Model ----------------------------
(***************************************************************************)
(* A model of the Ballerina structural chunker (src/src/chunker.ts), of    *)
(* the per-file loop that drives it (BallerinaRAGSystem.indexChunks), of   *)
(* the position tracker, of the embedding and upsert batches, of the       *)
(* queries file reader and of the commands of src/src/main.ts.             *)
(*                                                                         *)
(* A source text is a sequence of lexemes.  Every lexeme counts as ONE     *)
(* code unit: offsets, match lengths, lines and columns are counted in     *)
(* lexemes.  Offsets are 0-based as in JavaScript.  The lexemes are        *)
(*                                                                         *)
(*   "nl"    a newline                 "sp"   a blank (indentation)        *)
(*   "imp"   import ballerina/http;    "cfg"  configurable int port = 1;   *)
(*   "var"   int total = 0;            "fvar" final int max = 10;          *)
(*   "typ"   type Id int;              "trec" type Book record             *)
(*   "pub"   public<blank>             "ret"  <blank>returns int           *)
(*   "fnF"   function f()              "fnG"  function g()                 *)
(*   "fnH"   function h()                                                  *)
(*   "svcA"  service /a on ln          "svcB" service /b on ln             *)
(*   "res"   resource<blank>                                               *)
(*   "rfnX"  function get x()          "rfnY" function get y()             *)
(*   "cls"   class C                   "stmt" run();                       *)
(*   "lb"    {                         "rb"   }                            *)
(*   "spub"  log("public");            "svar" int services = 0;            *)
(*   "cr"    a carriage return (texts handed to the position tracker)       *)
(*                                                                         *)
(* The content of a queries file is a sequence of lexemes too:             *)
(*                                                                         *)
(*   "["  "]"  ","   JSON punctuation   "null"  the JSON value null        *)
(*   "oA"  {"id": 1, "query": "qa"}     "oB"  {"id": 2, "query": "qb"}     *)
(*   "oNoQuery"  {"id": 3}              "oNoId"  {"query": "qc"}           *)
(*   "wA" "wB"  a line of plain text    "hash"  #                          *)
(*   "nl"  a newline                    "sp"  a blank                      *)
(***************************************************************************)
EXTENDS Integers, Sequences, FiniteSets, TLC

\* the chunker and the loop over the files
VARIABLES files, fileIdx, pc, lastIndex, curService, resLastIndex,
          chunks, matches, allChunks, calls

\* the position tracker called on its own: its text and the positions it
\* returned, by offset
VARIABLES text, located

chunkerVars == <<files, fileIdx, pc, lastIndex, curService, resLastIndex,
                 chunks, matches, allChunks, calls>>

trackerVars == <<text, located>>

\* the rest of indexChunks: where it stands, the JSON file written, whether
\* the collection exists, the loop variable i of the batches, the batch whose
\* embeddings have come back, and the points of the collection by id; the
\* requests sent and files written by this run, in order, and the number of
\* the run against the collection
VARIABLES ipc, saved, collectionExists, batchStart, pending, points, io, run

indexVars == <<ipc, saved, collectionExists, batchStart, pending, points, io, run>>

\* processUserQueries: the queries file, the queries read from it, the loop
\* variable i, where the call stands, the queries handed to
\* saveContextToFile so far and the messages written to the console
VARIABLES qfile, queries, qi, qpc, executed, qlog

queryVars == <<qfile, queries, qi, qpc, executed, qlog>>

\* main: the command of the command line and the call main is waiting for
VARIABLES command, mpc

mainVars == <<command, mpc>>

\* what the chunker leaves alone
otherVars == <<trackerVars, indexVars, queryVars, mainVars>>

vars == <<chunkerVars, otherVars>>

-----------------------------------------------------------------------------
(* Strings as sequences of lexemes: the String methods the chunker uses.   *)

\* code[i]; "eof" stands for undefined (past either end)
At(code, i) == IF i >= 0 /\ i < Len(code) THEN code[i + 1] ELSE "eof"

Slice(code, from, to) ==
    LET f == IF from < 0 THEN 0 ELSE IF from > Len(code) THEN Len(code) ELSE from
        t == IF to < 0 THEN 0 ELSE IF to > Len(code) THEN Len(code) ELSE to
    IN  IF t <= f THEN <<>> ELSE SubSeq(code, f + 1, t)

Max(S) == CHOOSE x \in S : \A y \in S : y <= x

Min(S) == CHOOSE x \in S : \A y \in S : x <= y

\* \s : the whitespace class
IsSpace(t) == t \in {"sp", "nl"}

\* the lexemes whose text contains the given keyword as a substring
ServiceLexemes == {"svcA", "svcB"}

ResourceLexemes == {"res"}

FunctionLexemes == {"fnF", "fnG", "fnH", "rfnX", "rfnY"}

CloseBraceLexemes == {"rb"}

\* service, inside a word or not
ServiceWordLexemes == ServiceLexemes \cup {"svar"}

PublicLexemes == {"pub", "spub"}

\* function|service|resource|type|import|configurable
ModuleVarStopLexemes ==
    FunctionLexemes \cup ServiceWordLexemes \cup ResourceLexemes
    \cup {"typ", "trec", "imp", "cfg"}

HasService(t) == t \in ServiceLexemes

IsFunctionHeader(t) == t \in {"fnF", "fnG", "fnH"}

IsResourceHeader(t) == t \in {"rfnX", "rfnY"}

FunctionNameOf(t) ==
    CASE t = "fnF" -> "f"
      [] t = "fnG" -> "g"
      [] t = "fnH" -> "h"
      [] OTHER -> "?"

ResourcePathOf(t) ==
    CASE t = "rfnX" -> "x"
      [] t = "rfnY" -> "y"
      [] OTHER -> "?"

ServicePathOf(t) ==
    CASE t = "svcA" -> "/a"
      [] t = "svcB" -> "/b"
      [] OTHER -> "?"

\* String.prototype.replace(/^\//, "") on a service path
StripLeadingSlash(p) ==
    CASE p = "/a" -> "a"
      [] p = "/b" -> "b"
      [] OTHER -> p

\* String.prototype.trim
RECURSIVE TrimLeft(_)
TrimLeft(s) ==
    IF s # <<>> /\ IsSpace(Head(s)) THEN TrimLeft(Tail(s)) ELSE s

RECURSIVE TrimRight(_)
TrimRight(s) ==
    IF s # <<>> /\ IsSpace(s[Len(s)]) THEN TrimRight(SubSeq(s, 1, Len(s) - 1)) ELSE s

Trim(s) == TrimRight(TrimLeft(s))

\* code.lastIndexOf(x) for a substring x, X the lexemes that contain x
LastIndexOf(code, X) ==
    LET S == {i \in 0..(Len(code) - 1) : At(code, i) \in X}
    IN  IF S = {} THEN -1 ELSE Max(S)

\* code.lastIndexOf("\n", fromIndex): fromIndex is clamped to 0..length-1
LastIndexOfNewline(code, fromIndex) ==
    LET f == IF fromIndex < 0 THEN 0 ELSE fromIndex
        S == {i \in 0..(Len(code) - 1) : i <= f /\ At(code, i) = "nl"}
    IN  IF S = {} THEN -1 ELSE Max(S)

-----------------------------------------------------------------------------
(* The position tracker.                                                   *)

\* code.slice(0, index).split(/\r?\n/).length
getLineNumber(code, index) ==
    LET pre == Slice(code, 0, index)
    IN  1 + Cardinality({i \in 1..Len(pre) : pre[i] = "nl"})

\* the column counted back from the end of the line instead
getColumnNumberFromLineEnd(code, index) ==
    LET S == {i \in index..(Len(code) - 1) : At(code, i) = "nl"}
        lineEnd == IF S = {} THEN Len(code) ELSE Min(S)
    IN  lineEnd - index + 1

\* code.lastIndexOf("\\n", index - 1) is the newline before index
getColumnNumber(code, index) ==
    LET lastNewline == LastIndexOfNewline(code, index - 1)
    IN  index - (lastNewline + 1) + 1

\* match is [index |-> offset of the match, len |-> length of match[0]]
buildMetadata(base, code, match) ==
    LET startLine   == getLineNumber(code, match.index)
        endLine     == getLineNumber(code, match.index + match.len)
        startColumn == getColumnNumber(code, match.index)
        endColumn   == getColumnNumber(code, match.index + match.len)
    IN  base @@ [line     |-> startLine,
                 endLine  |-> endLine,
                 position |-> [start |-> [line |-> startLine, column |-> startColumn],
                               end   |-> [line |-> endLine, column |-> endColumn]]]

-----------------------------------------------------------------------------
(* Regular expressions, on lexemes.  A match record carries index (the     *)
(* offset of match[0]) and len (its length) like a RegExpExecArray, and    *)
(* the capture groups the chunker reads.                                   *)

NoMatch == [index |-> -1, len |-> 0]

\* ^ under the m flag
LineStart(code, p) == p = 0 \/ At(code, p - 1) = "nl"

\* how far . can run from p: the offset of the next newline, or the length
LineEnd(code, p) ==
    LET S == {i \in p..(Len(code) - 1) : At(code, i) = "nl"}
    IN  IF S = {} THEN Len(code) ELSE Min(S)

\* (?=.*x) at p, X the lexemes that contain x
LineHas(code, p, X) == \E i \in p..(LineEnd(code, p) - 1) : At(code, i) \in X

\* \s* from i
SkipSpace(code, i) ==
    LET S == {j \in i..(Len(code) - 1) : ~IsSpace(At(code, j))}
    IN  IF S = {} THEN Len(code) ELSE Min(S)

\* [^{]* from i, then {: the offset of the first { at or after i, or -1
NextOpen(code, i) ==
    LET S == {j \in i..(Len(code) - 1) : At(code, j) = "lb"}
    IN  IF S = {} THEN -1 ELSE Min(S)

\* [^}]* from i, then }: the offset of the first } at or after i, or -1
NextClose(code, i) ==
    LET S == {j \in i..(Len(code) - 1) : At(code, j) = "rb"}
    IN  IF S = {} THEN -1 ELSE Min(S)

\* The nesting the body pattern spells out:
\*   (?:[^{}]|\{(?:[^{}]|\{[^{}]*\})*\})*   two levels of inner blocks
RegexNestingDepth == 2

\* a body pattern that lets the end of the text close the block
RECURSIVE ScanBodyToEnd(_, _, _)
ScanBodyToEnd(code, i, d) ==
    IF i >= Len(code) THEN Len(code)
    ELSE IF At(code, i) = "rb" THEN i + 1
    ELSE IF At(code, i) = "lb"
         THEN IF d = 0 THEN -1
              ELSE LET e == ScanBodyToEnd(code, i + 1, d - 1)
                   IN  IF e = -1 THEN -1 ELSE ScanBodyToEnd(code, e, d)
    ELSE ScanBodyToEnd(code, i + 1, d)

\* (?:[^{}]|<block of depth <= d>)*\}  from i: the offset just after the
\* closing }, or -1.  A { that opens no block of depth <= d, or the end of
\* the text, fails the whole pattern (no shorter repetition is followed by }).
RECURSIVE ScanBody(_, _, _)
ScanBody(code, i, d) ==
    IF i >= Len(code) THEN -1
    ELSE IF At(code, i) = "rb" THEN i + 1
    ELSE IF At(code, i) = "lb"
         THEN IF d = 0 THEN -1
              ELSE LET e == ScanBody(code, i + 1, d - 1)
                   IN  IF e = -1 THEN -1 ELSE ScanBody(code, e, d)
    ELSE ScanBody(code, i + 1, d)

\* a body pattern that stops at the first }, as the class pattern does
BlockEndAtFirstClose(code, open) ==
    IF NextClose(code, open + 1) = -1 THEN -1 ELSE NextClose(code, open + 1) + 1

\* a body pattern without a nesting limit
BlockEndAtAnyDepth(code, open) == ScanBody(code, open + 1, Len(code))

\* \{((?:[^{}]|\{(?:[^{}]|\{[^{}]*\})*\})*)\} with the { at offset open
BlockEnd(code, open) == ScanBody(code, open + 1, RegexNestingDepth)

\* (?:\s+returns\s*([^\{]+))?\s*\{ from i (just after the parameter list):
\* the offset of the { that opens the body, or -1
BodyOpen(code, i) ==
    LET a == SkipSpace(code, i)
    IN  IF At(code, a) = "ret" THEN NextOpen(code, a + 1)
        ELSE IF At(code, a) = "lb" THEN a
        ELSE -1

\* match[4]: the text after "returns", trimmed
ReturnTypeOf(code, i, open) ==
    LET a == SkipSpace(code, i)
    IN  IF At(code, a) = "ret"
        THEN <<"int">> \o TrimRight(Slice(code, a + 1, open))
        ELSE <<>>

\* /import\s+[^;]+;/g
ImportMatchAt(code, p) ==
    IF At(code, p) = "imp" THEN [index |-> p, len |-> 1] ELSE NoMatch

\* /configurable\s+[\w:]+\s+\w+\s*=\s*[^;]+;/g
ConfigurableMatchAt(code, p) ==
    IF At(code, p) = "cfg" THEN [index |-> p, len |-> 1] ELSE NoMatch

\* /^(?!.*(?:function|service|resource|type|import|configurable)).*?
\*   (?:final\s+)?[\w:]+\s+(\w+)\s*=\s*[^;]+;/gm
ModuleVariableMatchAt(code, p) ==
    IF ~LineStart(code, p) \/ LineHas(code, p, ModuleVarStopLexemes) THEN NoMatch
    ELSE LET Q == {q \in p..(LineEnd(code, p) - 1) : At(code, q) \in {"var", "fvar"}}
         IN  IF Q = {} THEN NoMatch
             ELSE [index |-> p, len |-> Min(Q) + 1 - p]

\* /(public\s+)?(type\s+(\w+)\s+([^;{]+(?:;|\{[^}]*\}));?)/g
TypeMatchAt(code, p) ==
    LET t == IF At(code, p) = "pub" THEN SkipSpace(code, p + 1) ELSE p
        b == SkipSpace(code, t + 1)
        r == NextClose(code, b + 1)
    IN  IF At(code, t) = "typ"
        THEN [index |-> p, len |-> t + 1 - p, g2 |-> t, name |-> "Id",
              public |-> At(code, p) = "pub"]
        ELSE IF At(code, t) = "trec" /\ At(code, b) = "lb" /\ r # -1
        THEN [index |-> p, len |-> r + 1 - p, g2 |-> t, name |-> "Book",
              public |-> At(code, p) = "pub"]
        ELSE NoMatch

\* ((?:public\s+)?function\s+(\w+)\s*\(([^)]*)\)(?:\s+returns\s*([^\{]+))?
\*  \s*\{(...)\}) at q: group 1 of functionRegex
FunctionCoreAt(code, q) ==
    LET h    == IF At(code, q) = "pub" THEN SkipSpace(code, q + 1) ELSE q
        open == BodyOpen(code, h + 1)
        e    == BlockEnd(code, open)
    IN  IF IsFunctionHeader(At(code, h)) /\ open # -1 /\ e # -1
        THEN [index |-> q, len |-> e - q, name |-> FunctionNameOf(At(code, h)),
              returnType |-> ReturnTypeOf(code, h + 1, open), open |-> open]
        ELSE NoMatch

\* /^(?!.*resource).*?(<group 1>)/gm : .*? stops at the first offset of the
\* line where group 1 matches
FunctionMatchAt(code, p) ==
    IF ~LineStart(code, p) \/ LineHas(code, p, ResourceLexemes) THEN NoMatch
    ELSE LET Q == {q \in p..(LineEnd(code, p) - 1) : FunctionCoreAt(code, q) # NoMatch}
         IN  IF Q = {} THEN NoMatch
             ELSE LET core == FunctionCoreAt(code, Min(Q))
                  IN  [index |-> p, len |-> core.index + core.len - p, g1 |-> core.index,
                       name |-> core.name, returnType |-> core.returnType,
                       open |-> core.open]

\* /service\s+(\/[\w\d_/-]*|\w+)(?:\s+on\s+([^{]+))?\s*\{(...)\}/g
ServiceMatchAt(code, p) ==
    LET open == NextOpen(code, p + 1)
        e    == BlockEnd(code, open)
    IN  IF HasService(At(code, p)) /\ open # -1 /\ e # -1
        THEN [index |-> p, len |-> e - p, path |-> ServicePathOf(At(code, p)),
              listener |-> <<"ln">> \o TrimRight(Slice(code, p + 1, open)),
              open |-> open]
        ELSE NoMatch

\* /resource\s+function\s+(\w+)\s+([^\s(]*)\s*\(([^)]*)\)
\*  (?:\s*returns\s*([^\{]+))?\s*\{(...)\}/g
ResourceMatchAt(code, p) ==
    LET h    == SkipSpace(code, p + 1)
        open == BodyOpen(code, h + 1)
        e    == BlockEnd(code, open)
    IN  IF At(code, p) = "res" /\ IsResourceHeader(At(code, h)) /\ open # -1 /\ e # -1
        THEN [index |-> p, len |-> e - p, httpMethod |-> "get",
              pathPart |-> ResourcePathOf(At(code, h)),
              returnType |-> ReturnTypeOf(code, h + 1, open), open |-> open]
        ELSE NoMatch

\* /((?:public\s+)?class\s+(\w+)(?:\s*\{[^}]*\}|\s*;))/g
ClassMatchAt(code, p) ==
    LET c == IF At(code, p) = "pub" THEN SkipSpace(code, p + 1) ELSE p
        b == SkipSpace(code, c + 1)
        r == NextClose(code, b + 1)
    IN  IF At(code, c) = "cls" /\ At(code, b) = "lb" /\ r # -1
        THEN [index |-> p, len |-> r + 1 - p, name |-> "C"]
        ELSE NoMatch

\* a pattern that also matches the empty string at the start of the line
ConstantMatchEmptyAt(code, p) ==
    IF LineStart(code, p) /\ At(code, p) = "fvar"
    THEN [index |-> p, len |-> 0, name |-> "max"]
    ELSE NoMatch

\* /^(final\s+[\w:]+\s+(\w+)\s*=\s*[^;]+;)/gm
ConstantMatchAt(code, p) ==
    IF LineStart(code, p) /\ At(code, p) = "fvar"
    THEN [index |-> p, len |-> 1, name |-> "max"]
    ELSE NoMatch

\* RegExp.prototype.exec of a /g regex finds the leftmost match at or after
\* lastIndex: the least offset of S that is at least from, or -1 (null)
Leftmost(S, from) ==
    IF {p \in S : p >= from} = {} THEN -1 ELSE Min({p \in S : p >= from})

\* importRegex.exec with lastIndex = from
ImportExec(code, from) ==
    LET p == Leftmost({q \in from..(Len(code) - 1) : ImportMatchAt(code, q) # NoMatch}, from)
    IN  IF p = -1 THEN NoMatch ELSE ImportMatchAt(code, p)

\* configurableRegex.exec with lastIndex = from
ConfigurableExec(code, from) ==
    LET p == Leftmost({q \in from..(Len(code) - 1) : ConfigurableMatchAt(code, q) # NoMatch}, from)
    IN  IF p = -1 THEN NoMatch ELSE ConfigurableMatchAt(code, p)

\* moduleVariableRegex.exec with lastIndex = from
ModuleVariableExec(code, from) ==
    LET p == Leftmost({q \in from..(Len(code) - 1) : ModuleVariableMatchAt(code, q) # NoMatch}, from)
    IN  IF p = -1 THEN NoMatch ELSE ModuleVariableMatchAt(code, p)

\* typeRegex.exec with lastIndex = from
TypeExec(code, from) ==
    LET p == Leftmost({q \in from..(Len(code) - 1) : TypeMatchAt(code, q) # NoMatch}, from)
    IN  IF p = -1 THEN NoMatch ELSE TypeMatchAt(code, p)

\* functionRegex.exec with lastIndex = from
FunctionExec(code, from) ==
    LET p == Leftmost({q \in from..(Len(code) - 1) : FunctionMatchAt(code, q) # NoMatch}, from)
    IN  IF p = -1 THEN NoMatch ELSE FunctionMatchAt(code, p)

\* serviceRegex.exec with lastIndex = from
ServiceExec(code, from) ==
    LET p == Leftmost({q \in from..(Len(code) - 1) : ServiceMatchAt(code, q) # NoMatch}, from)
    IN  IF p = -1 THEN NoMatch ELSE ServiceMatchAt(code, p)

\* resourceRegex.exec with lastIndex = from
ResourceExec(code, from) ==
    LET p == Leftmost({q \in from..(Len(code) - 1) : ResourceMatchAt(code, q) # NoMatch}, from)
    IN  IF p = -1 THEN NoMatch ELSE ResourceMatchAt(code, p)

\* classRegex.exec with lastIndex = from
ClassExec(code, from) ==
    LET p == Leftmost({q \in from..(Len(code) - 1) : ClassMatchAt(code, q) # NoMatch}, from)
    IN  IF p = -1 THEN NoMatch ELSE ClassMatchAt(code, p)

\* constantRegex.exec with lastIndex = from
ConstantExec(code, from) ==
    LET p == Leftmost({q \in from..(Len(code) - 1) : ConstantMatchAt(code, q) # NoMatch}, from)
    IN  IF p = -1 THEN NoMatch ELSE ConstantMatchAt(code, p)

-----------------------------------------------------------------------------
(* Building the chunks.                                                    *)

\* path.basename(filePath); a path is [dir |-> ..., base |-> ...]
basename(filePath) == filePath.base

\* The words of a lexeme, "|" marking text that is neither \w nor \s
WordsOf(t) ==
    CASE IsSpace(t)   -> <<>>
      [] t = "pub"    -> <<"public">>
      [] t = "cls"    -> <<"class", "C">>
      [] t = "ret"    -> <<"returns", "int">>
      [] t = "var"    -> <<"int", "total", "|">>
      [] t = "fvar"   -> <<"final", "int", "max", "|">>
      [] t = "cfg"    -> <<"configurable", "int", "port", "|">>
      [] t = "stmt"   -> <<"run", "|">>
      [] OTHER        -> <<"|">>

RECURSIVE WordsIn(_)
WordsIn(s) == IF s = <<>> THEN <<>> ELSE WordsOf(Head(s)) \o WordsIn(Tail(s))

\* match[0].match(/(?:final\s+)?[\w:]+\s+(\w+)/)[1] : the leftmost two words
\* that only blanks separate give the name, "final" in front being skipped
RECURSIVE FirstWordPair(_)
FirstWordPair(w) ==
    IF Len(w) < 2 THEN "null"
    ELSE IF w[1] = "|" \/ w[2] = "|" THEN FirstWordPair(Tail(w))
    ELSE IF w[1] = "final" /\ Len(w) >= 3 /\ w[3] # "|" THEN w[3]
    ELSE w[2]

ImportChunk(code, filePath, m) ==
    [content  |-> Slice(code, m.index, m.index + m.len),
     metadata |-> buildMetadata([type |-> "import", file |-> basename(filePath)],
                                code, [index |-> m.index, len |-> m.len])]

\* variableMatch: /configurable\s+[\w:]+\s+(\w+)/ on match[0]
ConfigurableChunk(code, filePath, m) ==
    [content  |-> Slice(code, m.index, m.index + m.len),
     metadata |-> buildMetadata([type |-> "configurable_variable", name |-> "port",
                                 file |-> basename(filePath)],
                                code, [index |-> m.index, len |-> m.len])]

ModuleVariableChunk(code, filePath, m) ==
    LET m0 == Slice(code, m.index, m.index + m.len)
    IN  [content  |-> Trim(m0),
         metadata |-> buildMetadata([type |-> "module_variable",
                                     name |-> FirstWordPair(WordsIn(m0)),
                                     file |-> basename(filePath)],
                                    code, [index |-> m.index, len |-> m.len])]

TypeChunk(code, filePath, m) ==
    [content  |-> Slice(code, m.g2, m.index + m.len),
     metadata |-> buildMetadata([type |-> "type_definition", name |-> m.name,
                                 file |-> basename(filePath),
                                 visibility |-> IF m.public THEN "public" ELSE "private"],
                                code, [index |-> m.index, len |-> m.len])]

\* match[1].includes("public")
IncludesPublic(s) == \E i \in 1..Len(s) : s[i] \in PublicLexemes

FunctionChunk(code, filePath, m) ==
    LET m1 == Slice(code, m.g1, m.index + m.len)
    IN  [content  |-> m1,
         metadata |-> buildMetadata([type |-> "function", name |-> m.name,
                                     file |-> basename(filePath),
                                     parameters |-> <<>>,
                                     returnType |-> IF m.returnType = <<>> THEN <<"void">>
                                                    ELSE m.returnType,
                                     visibility |-> IF IncludesPublic(m1) THEN "public"
                                                    ELSE "private"],
                                    code, [index |-> m.index, len |-> m.len])]

\* the scope test of the function loop: true when the match is skipped
InsideServiceHeuristic(code, m) ==
    LET beforeFunction   == Slice(code, 0, m.index)
        lastServiceStart == LastIndexOf(beforeFunction, ServiceWordLexemes)
        lastServiceEnd   == LastIndexOf(beforeFunction, CloseBraceLexemes)
    IN  lastServiceStart > lastServiceEnd /\ lastServiceStart # -1

\* a service chunk whose path lost its leading slash (the name put in its place)
ServiceChunkStrippedPath(code, filePath, m) ==
    [content  |-> <<"service", m.path, "on">> \o m.listener,
     metadata |-> buildMetadata([type |-> "service",
                                 name |-> StripLeadingSlash(m.path),
                                 file |-> basename(filePath),
                                 path |-> StripLeadingSlash(m.path),
                                 listener |-> m.listener],
                                code, [index |-> m.index, len |-> m.len])]

ServiceChunk(code, filePath, m) ==
    [content  |-> <<"service", m.path, "on">> \o m.listener,
     metadata |-> buildMetadata([type |-> "service",
                                 name |-> StripLeadingSlash(m.path),
                                 file |-> basename(filePath),
                                 path |-> m.path,
                                 listener |-> m.listener],
                                code, [index |-> m.index, len |-> m.len])]

\* serviceBody = match[3]
ServiceBodyOf(code, m) == Slice(code, m.open + 1, m.index + m.len - 1)

\* the resource's metadata is built from the WHOLE code and resourceMatch,
\* whose index counts from the start of serviceBody
ResourceChunk(code, filePath, svc, serviceBody, rm) ==
    LET body == Slice(serviceBody, rm.open + 1, rm.index + rm.len - 1)
    IN  [content  |-> <<"resource function", rm.httpMethod, rm.pathPart, "()">>
                      \o (IF rm.returnType # <<>> THEN <<"returns">> \o rm.returnType
                          ELSE <<>>)
                      \o <<"lb", "nl">> \o Trim(body) \o <<"nl", "rb">>,
         metadata |-> buildMetadata([type |-> "resource",
                                     name |-> <<rm.httpMethod, rm.pathPart>>,
                                     file |-> basename(filePath),
                                     servicePath |-> svc.path,
                                     serviceListener |-> svc.listener,
                                     httpMethod |-> rm.httpMethod,
                                     resourcePath |-> rm.pathPart,
                                     fullPath |-> <<svc.path, "/", rm.pathPart>>,
                                     parameters |-> <<>>,
                                     returnType |-> IF rm.returnType = <<>> THEN <<"void">>
                                                    ELSE rm.returnType],
                                    code, [index |-> rm.index, len |-> rm.len])]

ClassChunk(code, filePath, m) ==
    LET m1 == Slice(code, m.index, m.index + m.len)
    IN  [content  |-> m1,
         metadata |-> buildMetadata([type |-> "class", name |-> m.name,
                                     file |-> basename(filePath),
                                     visibility |-> IF IncludesPublic(m1) THEN "public"
                                                    ELSE "private"],
                                    code, [index |-> m.index, len |-> m.len])]

ConstantChunk(code, filePath, m) ==
    [content  |-> Slice(code, m.index, m.index + m.len),
     metadata |-> buildMetadata([type |-> "constant", name |-> m.name,
                                 file |-> basename(filePath)],
                                code, [index |-> m.index, len |-> m.len])]

-----------------------------------------------------------------------------
(* The source texts the chunker is run on.                                 *)

MaxItems == 2      \* top-level constructs in one file

MaxDepth == 3      \* brace blocks nested inside one body

MaxFiles == 3      \* files in one run

\* d blocks nested in one another around a statement
RECURSIVE Nest(_)
Nest(d) == IF d = 0 THEN <<"stmt">> ELSE <<"lb">> \o Nest(d - 1) \o <<"rb">>

Block(b) == <<"lb">> \o b \o <<"rb">>

SimpleItems ==
    { <<"imp", "nl">>,
      <<"cfg", "nl", "var", "nl", "fvar", "nl">>,
      <<"typ", "nl", "pub", "trec">> \o Block(<<"stmt">>) \o <<"nl", "cls">>
          \o Block(<<"stmt">>) \o <<"nl">> }

FunctionItems ==
    { <<"fnF">> \o Block(Nest(d)) \o <<"nl">> : d \in 1..MaxDepth }
    \cup { <<"pub", "fnG", "ret">> \o Block(<<"nl", "sp", "stmt", "nl">>) \o <<"nl">>,
           <<"sp", "fnG">> \o Block(<<"stmt">>) \o <<"nl">> }

UnclosedFunctionItems == { <<"fnF", "lb", "stmt", "nl">> }

\* the members of a service, each on a line of its own
ResX == <<"sp", "res", "rfnX">> \o Block(<<"stmt">>) \o <<"nl">>

ResY(d) == <<"sp", "res", "rfnY", "ret">> \o Block(Nest(d)) \o <<"nl">>

InnerFn == <<"sp", "fnH">> \o Block(<<"stmt">>) \o <<"nl">>

Service(header, members) == <<header, "lb", "nl">> \o members \o <<"rb", "nl">>

ServiceItems ==
    { Service("svcA", InnerFn),
      Service("svcA", ResX \o InnerFn),
      Service("svcA", ResX \o ResY(1)) }
    \cup { Service("svcB", ResY(d)) : d \in 1..(MaxDepth - 1) }

UnclosedServiceItems ==
    { <<"svcA", "lb", "nl">>, <<"svcA", "lb", "nl">> \o ResX }

RECURSIVE Concat(_)
Concat(ss) == IF ss = <<>> THEN <<>> ELSE Head(ss) \o Concat(Tail(ss))

RECURSIVE SeqsUpTo(_, _)
SeqsUpTo(S, n) ==
    IF n = 0 THEN {<<>>}
    ELSE LET R == SeqsUpTo(S, n - 1)
         IN  R \cup {Append(r, x) : r \in {q \in R : Len(q) = n - 1}, x \in S}

Items ==
    SimpleItems \cup FunctionItems \cup UnclosedFunctionItems
    \cup ServiceItems \cup UnclosedServiceItems

Texts == {Concat(is) : is \in SeqsUpTo(Items, MaxItems)} \ {<<>>}

\* the texts of the runs over several files
SmallTexts ==
    { <<"imp", "nl">>,
      <<"fnF">> \o Block(<<"stmt">>) \o <<"nl", "fnG">> \o Block(<<"stmt">>) \o <<"nl">>,
      <<"svcA", "lb", "nl", "sp", "res", "rfnX">> \o Block(<<"stmt">>) \o <<"nl", "rb", "nl">> }

\* a text that begins with an empty line and whose service holds its
\* resource right after the {
EdgeTexts ==
    { <<"nl", "svcA", "lb", "res", "rfnX">> \o Block(<<"stmt">>) \o <<"rb", "nl">> }

\* texts with the word public inside a body, the word service outside a
\* service, a class with a method and a record with a record in it, and a
\* variable declared inside a function
WordTexts ==
    { <<"fnF">> \o Block(<<"spub">>) \o <<"nl", "pub", "fnG">> \o Block(<<"stmt">>) \o <<"nl">>,
      <<"cls">> \o Block(<<"spub">>) \o <<"nl", "pub", "cls">> \o Block(<<"stmt">>) \o <<"nl">>,
      <<"svar", "nl", "fnF">> \o Block(<<"stmt">>) \o <<"nl">>,
      <<"fnF">> \o Block(<<"stmt">>) \o <<"nl", "svar", "nl", "fnG">> \o Block(<<"stmt">>) \o <<"nl">>,
      <<"cls">> \o Block(<<"nl", "sp", "fnH">> \o Block(<<"stmt">>) \o <<"nl">>) \o <<"nl">>,
      <<"trec">> \o Block(<<"stmt">> \o Block(<<"stmt">>)) \o <<"nl">>,
      <<"fnF">> \o Block(<<"nl", "sp", "var", "nl">>) \o <<"nl">> }

Paths ==
    << [dir |-> "ballerina", base |-> "main.bal"],
       [dir |-> "ballerina", base |-> "util.bal"],
       [dir |-> "ballerina", base |-> "main.bal"],
       [dir |-> "ballerina/sub", base |-> "main.bal"] >>

File(i, t) == [path |-> Paths[((i - 1) % Len(Paths)) + 1], code |-> t]

FileLists ==
    { <<File(1, t)>> : t \in Texts \cup EdgeTexts \cup WordTexts }
    \cup { [i \in 1..Len(ts) |-> File(i, ts[i])] :
             ts \in UNION {[1..k -> SmallTexts] : k \in 2..MaxFiles} }

-----------------------------------------------------------------------------
(* The chunker as a state machine: one step per regex exec.                *)

\* the loops in another order: services and resources before the functions
PhaseOrderServicesFirst ==
    << "import", "configurable_variable", "module_variable", "type_definition",
       "service", "function", "class", "constant", "return" >>

\* the order of the loops of chunkBallerinaCode
PhaseOrder ==
    << "import", "configurable_variable", "module_variable", "type_definition",
       "function", "service", "class", "constant", "return" >>

NextPhase(ph) ==
    LET i == CHOOSE k \in 1..Len(PhaseOrder) : PhaseOrder[k] = ph
    IN  PhaseOrder[i + 1]

\* the array of the previous call kept (a chunks field instead of a local)
StaleChunks == chunks

\* const chunks: Chunk[] = []
NewChunks == <<>>

\* the arguments of the running call
curCode == files[fileIdx].code

curPath == files[fileIdx].path

\* the position tracker is not called on its own
TrackerIdle == text = <<>> /\ located = <<>>

\* no batch is in flight
NoBatch == [batch |-> <<>>, texts |-> <<>>, embeddings |-> <<>>]

\* indexChunks has gone no further than its loop over the files
IndexIdle ==
    /\ ipc = "chunking"
    /\ saved = <<>>
    /\ collectionExists = FALSE
    /\ batchStart = 0
    /\ pending = NoBatch
    /\ points = <<>>
    /\ io = <<>>
    /\ run = 1

\* main is not running: the methods are called on their own
MainIdle == command = "" /\ mpc = "idle"

\* processUserQueries is not called
QueryIdle ==
    /\ qfile = [status |-> "missing", content |-> <<>>]
    /\ queries = <<>>
    /\ qi = 0
    /\ qpc = "idle"
    /\ executed = <<>>
    /\ qlog = <<>>

\* let allChunks: Chunk[] = [];  and the loop over the files not yet begun
LoopStart ==
    /\ fileIdx = 1
    /\ pc = "idle"
    /\ lastIndex = 0
    /\ curService = NoMatch
    /\ resLastIndex = 0
    /\ chunks = <<>>
    /\ matches = <<>>
    /\ allChunks = <<>>
    /\ calls = <<>>

\* chunkBallerinaCode is not running
ChunkerIdle == files = <<>> /\ LoopStart

Init ==
    /\ files \in FileLists
    /\ LoopStart
    /\ TrackerIdle
    /\ IndexIdle
    /\ QueryIdle
    /\ MainIdle

\* the new chunk put in front of the others (unshift instead of push)
PushFront(chunk, m, base, start, open) ==
    /\ chunks' = <<chunk>> \o chunks
    /\ matches' = <<[index |-> m.index, len |-> m.len,
                     base |-> base, start |-> start, open |-> open]>> \o matches

\* chunks.push(chunk); matches records the match object handed to
\* buildMetadata (history: index, len), the offset in the file of the string
\* that was searched (base), the offset in that string where the matched
\* construct begins (start: the match less the text of .*? in front) and the offset in that string of the { that the
\* body pattern matched (open; -1 for the kinds without a body pattern)
Push(chunk, m, base, start, open) ==
    /\ chunks' = Append(chunks, chunk)
    /\ matches' = Append(matches, [index |-> m.index, len |-> m.len,
                                   base |-> base, start |-> start, open |-> open])

\* chunkBallerinaCode(code, filePath) is entered
CallChunker ==
    /\ pc = "idle"
    /\ fileIdx <= Len(files)
    /\ pc' = PhaseOrder[1]
    /\ lastIndex' = 0
    /\ chunks' = NewChunks
    /\ matches' = <<>>
    /\ UNCHANGED <<files, fileIdx, curService, resLastIndex, allChunks, calls>>
    /\ UNCHANGED otherVars

\* one round of  while ((match = importRegex.exec(code)) !== null)
ScanImports ==
    /\ pc = "import"
    /\ LET m == ImportExec(curCode, lastIndex)
       IN  IF m = NoMatch
           THEN /\ pc' = NextPhase("import")
                /\ lastIndex' = 0
                /\ UNCHANGED <<chunks, matches>>
           ELSE /\ Push(ImportChunk(curCode, curPath, m), m, 0, m.index, -1)
                /\ lastIndex' = m.index + m.len
                /\ pc' = pc
    /\ UNCHANGED <<files, fileIdx, curService, resLastIndex, allChunks, calls>>
    /\ UNCHANGED otherVars

\* one round of  while ((match = configurableRegex.exec(code)) !== null)
ScanConfigurables ==
    /\ pc = "configurable_variable"
    /\ LET m == ConfigurableExec(curCode, lastIndex)
       IN  IF m = NoMatch
           THEN /\ pc' = NextPhase("configurable_variable")
                /\ lastIndex' = 0
                /\ UNCHANGED <<chunks, matches>>
           ELSE /\ Push(ConfigurableChunk(curCode, curPath, m), m, 0, m.index, -1)
                /\ lastIndex' = m.index + m.len
                /\ pc' = pc
    /\ UNCHANGED <<files, fileIdx, curService, resLastIndex, allChunks, calls>>
    /\ UNCHANGED otherVars

\* where the declaration begins in a match of moduleVariableRegex: after the
\* blanks that .*? took in front (trim() removes them from the content)
ModuleVariableStart(code, m) ==
    m.index + m.len - Len(TrimLeft(Slice(code, m.index, m.index + m.len)))

\* one round of  while ((match = moduleVariableRegex.exec(code)) !== null)
ScanModuleVariables ==
    /\ pc = "module_variable"
    /\ LET m == ModuleVariableExec(curCode, lastIndex)
       IN  IF m = NoMatch
           THEN /\ pc' = NextPhase("module_variable")
                /\ lastIndex' = 0
                /\ UNCHANGED <<chunks, matches>>
           ELSE /\ Push(ModuleVariableChunk(curCode, curPath, m), m, 0, ModuleVariableStart(curCode, m), -1)
                /\ lastIndex' = m.index + m.len
                /\ pc' = pc
    /\ UNCHANGED <<files, fileIdx, curService, resLastIndex, allChunks, calls>>
    /\ UNCHANGED otherVars

\* one round of  while ((match = typeRegex.exec(code)) !== null)
ScanTypes ==
    /\ pc = "type_definition"
    /\ LET m == TypeExec(curCode, lastIndex)
       IN  IF m = NoMatch
           THEN /\ pc' = NextPhase("type_definition")
                /\ lastIndex' = 0
                /\ UNCHANGED <<chunks, matches>>
           ELSE /\ Push(TypeChunk(curCode, curPath, m), m, 0, m.index, -1)
                /\ lastIndex' = m.index + m.len
                /\ pc' = pc
    /\ UNCHANGED <<files, fileIdx, curService, resLastIndex, allChunks, calls>>
    /\ UNCHANGED otherVars

\* the function loop, with its  continue  for a match inside a service
ScanFunctions ==
    /\ pc = "function"
    /\ LET m == FunctionExec(curCode, lastIndex)
       IN  IF m = NoMatch
           THEN /\ pc' = NextPhase("function")
                /\ lastIndex' = 0
                /\ UNCHANGED <<chunks, matches>>
           ELSE /\ lastIndex' = m.index + m.len
                /\ pc' = pc
                /\ IF InsideServiceHeuristic(curCode, m)
                   THEN UNCHANGED <<chunks, matches>>
                   ELSE Push(FunctionChunk(curCode, curPath, m), m, 0, m.g1, m.open)
    /\ UNCHANGED <<files, fileIdx, curService, resLastIndex, allChunks, calls>>
    /\ UNCHANGED otherVars

\* the service loop: the service chunk is pushed, then the resource loop runs
ScanServices ==
    /\ pc = "service"
    /\ LET m == ServiceExec(curCode, lastIndex)
       IN  IF m = NoMatch
           THEN /\ pc' = NextPhase("service")
                /\ lastIndex' = 0
                /\ UNCHANGED <<chunks, matches, curService, resLastIndex>>
           ELSE /\ Push(ServiceChunk(curCode, curPath, m), m, 0, m.index, m.open)
                /\ lastIndex' = m.index + m.len
                /\ curService' = m
                /\ resLastIndex' = 0
                /\ pc' = "resource"
    /\ UNCHANGED <<files, fileIdx, allChunks, calls>>
    /\ UNCHANGED otherVars

\* the inner loop  while ((resourceMatch = resourceRegex.exec(serviceBody)) !== null)
ScanResources ==
    /\ pc = "resource"
    /\ LET serviceBody == ServiceBodyOf(curCode, curService)
           rm == ResourceExec(serviceBody, resLastIndex)
       IN  IF rm = NoMatch
           THEN /\ pc' = "service"
                /\ resLastIndex' = 0
                /\ UNCHANGED <<chunks, matches>>
           ELSE /\ Push(ResourceChunk(curCode, curPath, curService, serviceBody, rm),
                        rm, curService.open + 1, rm.index, rm.open)
                /\ resLastIndex' = rm.index + rm.len
                /\ pc' = pc
    /\ UNCHANGED <<files, fileIdx, lastIndex, curService, allChunks, calls>>
    /\ UNCHANGED otherVars

\* one round of  while ((match = classRegex.exec(code)) !== null)
ScanClasses ==
    /\ pc = "class"
    /\ LET m == ClassExec(curCode, lastIndex)
       IN  IF m = NoMatch
           THEN /\ pc' = NextPhase("class")
                /\ lastIndex' = 0
                /\ UNCHANGED <<chunks, matches>>
           ELSE /\ Push(ClassChunk(curCode, curPath, m), m, 0, m.index, -1)
                /\ lastIndex' = m.index + m.len
                /\ pc' = pc
    /\ UNCHANGED <<files, fileIdx, curService, resLastIndex, allChunks, calls>>
    /\ UNCHANGED otherVars

\* one round of  while ((match = constantRegex.exec(code)) !== null)
ScanConstants ==
    /\ pc = "constant"
    /\ LET m == ConstantExec(curCode, lastIndex)
       IN  IF m = NoMatch
           THEN /\ pc' = NextPhase("constant")
                /\ lastIndex' = 0
                /\ UNCHANGED <<chunks, matches>>
           ELSE /\ Push(ConstantChunk(curCode, curPath, m), m, 0, m.index, -1)
                /\ lastIndex' = m.index + m.len
                /\ pc' = pc
    /\ UNCHANGED <<files, fileIdx, curService, resLastIndex, allChunks, calls>>
    /\ UNCHANGED otherVars

\* return chunks;  and, in the caller,  allChunks = allChunks.concat(...)
Return ==
    /\ pc = "return"
    /\ allChunks' = allChunks \o chunks
    /\ calls' = Append(calls, [code |-> curCode, path |-> curPath, result |-> chunks,
                               matches |-> matches])
    /\ fileIdx' = fileIdx + 1
    /\ pc' = "idle"
    /\ UNCHANGED <<files, lastIndex, curService, resLastIndex, chunks, matches>>
    /\ UNCHANGED otherVars

Next ==
    \/ CallChunker
    \/ ScanImports
    \/ ScanConfigurables
    \/ ScanModuleVariables
    \/ ScanTypes
    \/ ScanFunctions
    \/ ScanServices
    \/ ScanResources
    \/ ScanClasses
    \/ ScanConstants
    \/ Return

Spec == Init /\ [][Next]_vars

\* a step of Next is possible: a call is running, or a file is left to read
Running == pc # "idle" \/ fileIdx <= Len(files)

\* chunkBallerinaCode and the loop that calls it are sequential code: the
\* step that comes next is taken.  This is weak fairness of Next, with
\* Running written for ENABLED <<Next>>_vars.
FairSpec == Spec /\ ([]<>~Running \/ []<><<Next>>_vars)

-----------------------------------------------------------------------------
(* indexChunks as a whole: after the loop over the files, the chunks are   *)
(* saved to a JSON file, the collection is created, and the chunks are     *)
(* embedded and upserted in batches.                                       *)

\* for the runs that index: several files, and one run of more chunks than
\* a batch holds
IndexFileLists ==
    { [i \in 1..Len(ts) |-> File(i, ts[i])] :
        ts \in UNION {[1..k -> SmallTexts] : k \in 2..MaxFiles} }
    \cup { [i \in 1..MaxFiles |-> File(i, <<"cfg", "nl", "var", "nl", "fvar", "nl">>)] }

IndexInit ==
    /\ files \in IndexFileLists
    /\ LoopStart
    /\ TrackerIdle
    /\ IndexIdle
    /\ QueryIdle
    /\ MainIdle

batchSize == 10

\* if (chunk.metadata.name) ... : the field is present (the names, paths and
\* methods of the lexemes are never empty)
Truthy(md, f) == f \in DOMAIN md

\* the text sent to the embeddings service, line by line
prepareTextForEmbedding(chunk) ==
    LET md == chunk.metadata
    IN  <<  <<"Type: ", md.type>>  >>
        \o (IF Truthy(md, "name") THEN << <<"Name: ", md.name>> >> ELSE <<>>)
        \o (IF Truthy(md, "servicePath") THEN << <<"Service: ", md.servicePath>> >> ELSE <<>>)
        \o (IF Truthy(md, "httpMethod") THEN << <<"HTTP Method: ", md.httpMethod>> >> ELSE <<>>)
        \o (IF Truthy(md, "returnType") /\ md.returnType # <<"void">>
            THEN << <<"Returns: ", md.returnType>> >> ELSE <<>>)
        \o << <<"Content:", chunk.content>> >>

\* the vector the service computes for a text
EmbeddingOf(t) == [of |-> t]

\* the response of the embeddings service that answers every text, in the
\* order of the texts: data[i] = {embedding, index}
ResponseTo(texts) ==
    [i \in 1..Len(texts) |-> [embedding |-> EmbeddingOf(texts[i]), index |-> i - 1]]

Reversed(s) == [i \in 1..Len(s) |-> s[Len(s) + 1 - i]]

\* the responses isVoyageEmbeddingResponse accepts: an array of items, each
\* with an embedding and an index; the items may come in another order and
\* there may be fewer of them than texts
Responses(texts) ==
    LET full == ResponseTo(texts)
    IN  {full, Reversed(full), SubSeq(full, 1, Len(full) - 1)}

\* data.data.map(item => item.embedding)
getEmbeddings(data) == [i \in 1..Len(data) |-> data[i].embedding]

\* the points upsertChunks builds: one per chunk that has an embedding
PointsOf(batch, embeddings, texts, startIndex) ==
    [id \in {startIndex + i : i \in {j \in 1..Len(batch) : j <= Len(embeddings)}} |->
        LET i == id - startIndex
        IN  [vector  |-> embeddings[i],
             payload |-> [content  |-> batch[i].content,
                          metadata |-> batch[i].metadata,
                          text_for_embedding |-> IF i <= Len(texts) THEN texts[i] ELSE ""]]]

\* qdrantClient.upsert: the points given are written over those of the same id
Upserted(old, new) ==
    [id \in DOMAIN old \cup DOMAIN new |-> IF id \in DOMAIN new THEN new[id] ELSE old[id]]

\* this.chunker.saveChunksToJson(allChunks, ballerinaDir), after the loop
SaveChunksToJson ==
    /\ ipc = "chunking"
    /\ pc = "idle"
    /\ fileIdx > Len(files)
    /\ saved' = <<[totalChunks |-> Len(allChunks), chunks |-> allChunks]>>
    /\ io' = Append(io, [op |-> "writeFile"])
    /\ ipc' = "createCollection"
    /\ UNCHANGED <<chunkerVars, trackerVars, queryVars, mainVars,
                   collectionExists, batchStart, pending, points, run>>

\* await this.qdrantService.createCollection(): getCollections, and
\* createCollection unless the collection exists; either request may fail
CreateCollection ==
    /\ ipc = "createCollection"
    /\ \/ /\ io' = Append(io, [op |-> "getCollections"])
          /\ ipc' = "failed"
          /\ UNCHANGED collectionExists
       \/ IF collectionExists
          THEN /\ io' = Append(io, [op |-> "getCollections"])
               /\ ipc' = "embed"
               /\ UNCHANGED collectionExists
          ELSE /\ io' = io \o <<[op |-> "getCollections"], [op |-> "createCollection"]>>
               /\ \E created \in BOOLEAN :
                      /\ collectionExists' = created
                      /\ ipc' = IF created THEN "embed" ELSE "failed"
    /\ UNCHANGED <<chunkerVars, trackerVars, queryVars, mainVars,
                   saved, batchStart, pending, points, run>>

\* the batch loop sending all the chunks that are left in one request
EmbedBatchWhole ==
    /\ ipc = "embed"
    /\ IF batchStart < Len(allChunks)
       THEN LET batch == Slice(allChunks, batchStart, Len(allChunks))
                texts == [i \in 1..Len(batch) |-> prepareTextForEmbedding(batch[i])]
            IN  /\ io' = Append(io, [op |-> "embeddings", input |-> texts])
                /\ \/ \E data \in Responses(texts) :
                          /\ pending' = [batch |-> batch, texts |-> texts,
                                         embeddings |-> getEmbeddings(data)]
                          /\ ipc' = "upsert"
                   \/ /\ ipc' = "failed"
                      /\ UNCHANGED pending
       ELSE /\ ipc' = "done"
            /\ UNCHANGED <<pending, io>>
    /\ UNCHANGED <<chunkerVars, trackerVars, queryVars, mainVars,
                   saved, collectionExists, batchStart, points, run>>

\* the loop test of the batches, batch = allChunks.slice(i, i + batchSize),
\* texts = batch.map(prepareTextForEmbedding) and await getEmbeddings(texts),
\* which throws when the service answers with an error
EmbedBatch ==
    /\ ipc = "embed"
    /\ IF batchStart < Len(allChunks)
       THEN LET batch == Slice(allChunks, batchStart, batchStart + batchSize)
                texts == [i \in 1..Len(batch) |-> prepareTextForEmbedding(batch[i])]
            IN  /\ io' = Append(io, [op |-> "embeddings", input |-> texts])
                /\ \/ \E data \in Responses(texts) :
                          /\ pending' = [batch |-> batch, texts |-> texts,
                                         embeddings |-> getEmbeddings(data)]
                          /\ ipc' = "upsert"
                   \/ /\ ipc' = "failed"
                      /\ UNCHANGED pending
       ELSE /\ ipc' = "done"
            /\ UNCHANGED <<pending, io>>
    /\ UNCHANGED <<chunkerVars, trackerVars, queryVars, mainVars,
                   saved, collectionExists, batchStart, points, run>>

\* await this.qdrantService.upsertChunks(batch, embeddings, texts, i); i += batchSize
UpsertBatch ==
    /\ ipc = "upsert"
    /\ LET new == PointsOf(pending.batch, pending.embeddings, pending.texts, batchStart)
       IN  /\ io' = Append(io, [op |-> "upsert", ids |-> DOMAIN new])
           /\ \/ /\ points' = Upserted(points, new)
                 /\ batchStart' = batchStart + batchSize
                 /\ pending' = NoBatch
                 /\ ipc' = "embed"
              \/ /\ ipc' = "failed"
                 /\ UNCHANGED <<points, batchStart, pending>>
    /\ UNCHANGED <<chunkerVars, trackerVars, queryVars, mainVars,
                   saved, collectionExists, run>>

IndexNext ==
    \/ Next
    \/ SaveChunksToJson
    \/ CreateCollection
    \/ EmbedBatch
    \/ UpsertBatch

IndexSpec == IndexInit /\ [][IndexNext]_vars

-----------------------------------------------------------------------------
(* indexChunks run again and again against the same collection.            *)

MaxRuns == 2       \* runs of indexChunks against one collection

\* the directory as it is at the start of a run: 4 chunks, 2 chunks, or more
\* chunks than a batch holds
ReindexFileLists ==
    { <<File(1, <<"fnF">> \o Block(<<"stmt">>) \o <<"nl", "fnG">> \o Block(<<"stmt">>) \o <<"nl">>),
        File(2, <<"svcA", "lb", "nl", "sp", "res", "rfnX">> \o Block(<<"stmt">>)
                    \o <<"nl", "rb", "nl">>)>>,
      <<File(1, <<"imp", "nl">>), File(2, <<"imp", "nl">>)>> }
    \cup { [i \in 1..MaxFiles |-> File(i, <<"cfg", "nl", "var", "nl", "fvar", "nl">>)] }

ReindexInit ==
    /\ files \in ReindexFileLists
    /\ LoopStart
    /\ TrackerIdle
    /\ IndexIdle
    /\ QueryIdle
    /\ MainIdle

\* indexChunks is called again, on the directory as it is now: the locals
\* are new, the collection and its points are those the runs before left
Reindex ==
    /\ ipc \in {"done", "failed"}
    /\ run < MaxRuns
    /\ run' = run + 1
    /\ files' \in ReindexFileLists
    /\ fileIdx' = 1
    /\ pc' = "idle"
    /\ lastIndex' = 0
    /\ curService' = NoMatch
    /\ resLastIndex' = 0
    /\ chunks' = <<>>
    /\ matches' = <<>>
    /\ allChunks' = <<>>
    /\ calls' = <<>>
    /\ ipc' = "chunking"
    /\ saved' = <<>>
    /\ batchStart' = 0
    /\ pending' = NoBatch
    /\ io' = <<>>
    /\ UNCHANGED <<collectionExists, points, trackerVars, queryVars, mainVars>>

ReindexNext ==
    \/ Next
    \/ SaveChunksToJson
    \/ CreateCollection
    \/ EmbedBatch
    \/ UpsertBatch
    \/ Reindex

ReindexSpec == ReindexInit /\ [][ReindexNext]_vars

-----------------------------------------------------------------------------
(* QueryProcessor.processUserQueries: the queries file is read, as JSON or *)
(* else as text, and every query is handed to saveContextToFile.           *)

MaxQueries == 3    \* items of a JSON array, lines of a text file

\* JSON.parse skips the white space between the tokens
NotBlank(t) == t \notin {"nl", "sp"}

JsonTokens(content) == SelectSeq(content, NotBlank)

JsonValues == {"oA", "oB", "oNoQuery", "oNoId", "null"}

\* an array of values: [ ]  or  [ v , v , ... ]
IsJsonArray(toks) ==
    /\ Len(toks) >= 2
    /\ toks[1] = "["
    /\ toks[Len(toks)] = "]"
    /\ LET inner == SubSeq(toks, 2, Len(toks) - 1)
       IN  \/ inner = <<>>
           \/ /\ Len(inner) % 2 = 1
              /\ \A i \in 1..Len(inner) :
                     IF i % 2 = 1 THEN inner[i] \in JsonValues ELSE inner[i] = ","

IsJsonValue(toks) == Len(toks) = 1 /\ toks[1] \in JsonValues

\* JSON.parse(fileContent): ok is FALSE when it throws a SyntaxError; items
\* are the items of the array parsed
JSONparse(content) ==
    LET toks == JsonTokens(content)
    IN  IF IsJsonArray(toks)
        THEN [ok |-> TRUE, array |-> TRUE,
              items |-> SelectSeq(SubSeq(toks, 2, Len(toks) - 1), LAMBDA t : t # ",")]
        ELSE IF IsJsonValue(toks) THEN [ok |-> TRUE, array |-> FALSE, items |-> <<>>]
        ELSE [ok |-> FALSE, array |-> FALSE, items |-> <<>>]

\* the object a lexeme stands for: a field that is absent reads as undefined
ItemOf(t) ==
    CASE t = "oA"       -> [id |-> 1, query |-> <<"qa">>]
      [] t = "oB"       -> [id |-> 2, query |-> <<"qb">>]
      [] t = "oNoQuery" -> [id |-> 3]
      [] t = "oNoId"    -> [query |-> <<"qc">>]

\* the try block of the JSON format: json is FALSE when the block throws
\* (SyntaxError of JSON.parse, "Invalid JSON format", or the TypeError of
\* reading .id of null) and the catch falls back to the text format
JsonQueries(content) ==
    LET parsed == JSONparse(content)
        Fallback == [json |-> FALSE, queries |-> <<>>]
    IN  IF ~parsed.ok \/ ~parsed.array \/ parsed.items = <<>> THEN Fallback
        ELSE IF parsed.items[1] = "null" THEN Fallback
        ELSE IF ~({"id", "query"} \subseteq DOMAIN ItemOf(parsed.items[1])) THEN Fallback
        ELSE IF \E i \in 1..Len(parsed.items) : parsed.items[i] = "null" THEN Fallback
        ELSE [json |-> TRUE,
              queries |-> [i \in 1..Len(parsed.items) |-> ItemOf(parsed.items[i])]]

\* fileContent.split(/\r?\n/)
RECURSIVE SplitLines(_)
SplitLines(content) ==
    LET N == {i \in 1..Len(content) : content[i] = "nl"}
    IN  IF N = {} THEN <<content>>
        ELSE <<SubSeq(content, 1, Min(N) - 1)>>
             \o SplitLines(SubSeq(content, Min(N) + 1, Len(content)))

\* line && !line.startsWith("#")
KeepLine(line) == line # <<>> /\ line[1] # "hash"

\* the queries of the text format returning nothing (no fallback)
NoTextQueries(content) == <<>>

\* .split(/\r?\n/).map(line => line.trim()).filter(...).map((query, index) => ...)
TextQueries(content) ==
    LET lines == SplitLines(content)
        kept  == SelectSeq([i \in 1..Len(lines) |-> Trim(lines[i])], KeepLine)
    IN  [i \in 1..Len(kept) |-> [id |-> i, query |-> kept[i]]]

\* the queries files
RECURSIVE Separated(_, _, _)
Separated(items, before, after) ==
    IF items = <<>> THEN <<>>
    ELSE before \o <<Head(items)>>
         \o (IF Len(items) > 1 THEN <<",">> ELSE <<>>) \o after
         \o Separated(Tail(items), before, after)

ArrayItems == {"oA", "oB", "oNoQuery", "null"}

ItemLists == SeqsUpTo(ArrayItems, MaxQueries)

\* an array on one line, an array with an item on every line, and the same
\* two without the closing ]
JsonContents ==
    { <<"[">> \o Separated(is, <<>>, <<"sp">>) \o <<"]">> : is \in ItemLists }
    \cup { <<"[", "nl">> \o Separated(is, <<"sp">>, <<"nl">>) \o <<"]", "nl">> : is \in ItemLists }

MalformedContents ==
    { <<"[">> \o Separated(is, <<>>, <<"sp">>) : is \in ItemLists }
    \cup { <<"[", "nl">> \o Separated(is, <<"sp">>, <<"nl">>) : is \in ItemLists }

TextLines == { <<"wA">>, <<"wB">>, <<"hash", "wA">>, <<"sp", "wA", "sp">>, <<>> }

TextContents ==
    { Concat([i \in 1..Len(ls) |-> ls[i] \o <<"nl">>]) : ls \in SeqsUpTo(TextLines, MaxQueries) }

QueryFiles ==
    { [status |-> "missing", content |-> <<>>], [status |-> "directory", content |-> <<>>] }
    \cup { [status |-> "file", content |-> c] :
             c \in JsonContents \cup MalformedContents \cup TextContents }

QueryInit ==
    /\ qfile \in QueryFiles
    /\ queries = <<>>
    /\ qi = 0
    /\ qpc = "start"
    /\ executed = <<>>
    /\ qlog = <<>>
    /\ ChunkerIdle
    /\ TrackerIdle
    /\ IndexIdle
    /\ MainIdle

\* from statSync to the test of queries.length: statSync throws for a path
\* that does not exist (caught at the bottom and thrown again), a path that
\* is no file returns, the content is read as JSON or else as text
ReadQueriesFile ==
    /\ qpc = "start"
    /\ CASE qfile.status = "missing" ->
              /\ qpc' = "thrown"
              /\ qlog' = Append(qlog, "Error processing queries file")
              /\ UNCHANGED queries
         [] qfile.status = "directory" ->
              /\ qpc' = "returned"
              /\ qlog' = Append(qlog, "File not found")
              /\ UNCHANGED queries
         [] qfile.status = "file" ->
              LET parsed == JsonQueries(qfile.content)
                  qs     == IF parsed.json THEN parsed.queries ELSE TextQueries(qfile.content)
                  said   == IF parsed.json THEN "Processing queries from JSON format"
                            ELSE "Processing as text file"
              IN  /\ queries' = qs
                  /\ IF qs = <<>>
                     THEN /\ qpc' = "returned"
                          /\ qlog' = qlog \o <<said, "No valid queries found">>
                     ELSE /\ qpc' = "loop"
                          /\ qlog' = Append(qlog, said)
    /\ UNCHANGED <<qfile, qi, executed, chunkerVars, trackerVars, indexVars, mainVars>>

\* one round of the loop over the queries: query.substring throws for a
\* query that is undefined (caught at the bottom and thrown again); an error
\* of saveContextToFile is caught and logged, and the loop goes on
ProcessQuery ==
    /\ qpc = "loop"
    /\ qi < Len(queries)
    /\ LET queryObj == queries[qi + 1]
       IN  IF "query" \notin DOMAIN queryObj
           THEN /\ qpc' = "thrown"
                /\ qlog' = Append(qlog, "Error processing queries file")
                /\ UNCHANGED <<qi, executed>>
           ELSE \E saved_ok \in BOOLEAN :
                    /\ executed' = Append(executed, [entry |-> queryObj, ok |-> saved_ok])
                    /\ qlog' = IF saved_ok THEN qlog
                               ELSE Append(qlog, "Error processing query")
                    /\ qi' = qi + 1
                    /\ UNCHANGED qpc
    /\ UNCHANGED <<qfile, queries, chunkerVars, trackerVars, indexVars, mainVars>>

\* the loop is over: console.log(`Completed processing ...`) and return
CompleteQueries ==
    /\ qpc = "loop"
    /\ qi >= Len(queries)
    /\ qpc' = "returned"
    /\ qlog' = Append(qlog, "Completed processing")
    /\ UNCHANGED <<qfile, queries, qi, executed, chunkerVars, trackerVars, indexVars, mainVars>>

QueryNext ==
    \/ ReadQueriesFile
    \/ ProcessQuery
    \/ CompleteQueries

QuerySpec == QueryInit /\ [][QueryNext]_vars

-----------------------------------------------------------------------------
(* main: the command line chooses the call; without a command the default  *)
(* pipeline indexes the directory and then runs the queries.               *)

\* process.argv[2]: "" stands for no command
Commands == {"", "index", "chunk", "queries"}

\* the directory the commands that chunk are run on
MainFileLists ==
    { <<File(1, <<"fnF">> \o Block(<<"stmt">>) \o <<"nl">>),
        File(2, <<"svcA", "lb", "nl", "sp", "res", "rfnX">> \o Block(<<"stmt">>)
                    \o <<"nl", "rb", "nl">>)>> }

\* const defaultQuery = process.env.DEFAULT_QUERY || "list all functions",
\* as saveContextToFile(defaultQuery, 5) receives it: without an id
defaultQuery == [query |-> <<"list all functions">>]

\* main has read its command and made the call of its branch
MainInit ==
    /\ command \in Commands
    /\ mpc = CASE command = "chunk"   -> "chunkAndSave"
               [] command = "queries" -> "processUserQueries"
               [] OTHER               -> "indexChunks"
    /\ files \in (IF command = "queries" THEN {<<>>} ELSE MainFileLists)
    /\ LoopStart
    /\ TrackerIdle
    /\ ipc = CASE command = "chunk"   -> "chunkAndSave"
               [] command = "queries" -> "idle"
               [] OTHER               -> "chunking"
    /\ saved = <<>>
    /\ collectionExists = FALSE
    /\ batchStart = 0
    /\ pending = NoBatch
    /\ points = <<>>
    /\ io = <<>>
    /\ run = 1
    /\ IF command = "queries"
       THEN /\ qfile \in QueryFiles
            /\ queries = <<>>
            /\ qi = 0
            /\ qpc = "start"
            /\ executed = <<>>
            /\ qlog = <<>>
       ELSE QueryIdle

\* chunkAndSave after its loop over the files: saveChunksToJson and return,
\* carried on into createCollection as indexChunks does
ChunkAndSaveThenIndex ==
    /\ ipc = "chunkAndSave"
    /\ pc = "idle"
    /\ fileIdx > Len(files)
    /\ saved' = <<[totalChunks |-> Len(allChunks), chunks |-> allChunks]>>
    /\ io' = Append(io, [op |-> "writeFile"])
    /\ ipc' = "createCollection"
    /\ UNCHANGED <<chunkerVars, trackerVars, queryVars, mainVars,
                   collectionExists, batchStart, pending, points, run>>

\* chunkAndSave after its loop over the files: saveChunksToJson and return
ChunkAndSave ==
    /\ ipc = "chunkAndSave"
    /\ pc = "idle"
    /\ fileIdx > Len(files)
    /\ saved' = <<[totalChunks |-> Len(allChunks), chunks |-> allChunks]>>
    /\ io' = Append(io, [op |-> "writeFile"])
    /\ ipc' = "returned"
    /\ UNCHANGED <<chunkerVars, trackerVars, queryVars, mainVars,
                   collectionExists, batchStart, pending, points, run>>

\* the call of the branch has returned or thrown and nothing follows it:
\* main ends, by process.exit(1) after an error
MainEnd ==
    /\ \/ /\ mpc = "indexChunks"
          /\ \/ ipc = "failed" /\ mpc' = "exit1"
             \/ ipc = "done" /\ command = "index" /\ mpc' = "finished"
       \/ /\ mpc = "chunkAndSave"
          /\ ipc = "returned"
          /\ mpc' = "finished"
       \/ /\ mpc = "processUserQueries"
          /\ command = "queries"
          /\ \/ qpc = "returned" /\ mpc' = "finished"
             \/ qpc = "thrown" /\ mpc' = "exit1"
    /\ UNCHANGED <<command, chunkerVars, trackerVars, indexVars, queryVars>>

\* the default pipeline after indexChunks: statSync(queriesFile).isFile()
\* throws when there is no such path, which the catch answers with the
\* default query; for a file processUserQueries is called; for a path that
\* is no file the if is skipped
StatQueriesFile ==
    /\ mpc = "indexChunks"
    /\ command = ""
    /\ ipc = "done"
    /\ \E f \in QueryFiles :
           /\ qfile' = f
           /\ CASE f.status = "file" ->
                     /\ mpc' = "processUserQueries"
                     /\ qpc' = "start"
                [] f.status = "missing" ->
                     /\ mpc' = "saveContextToFile"
                     /\ UNCHANGED qpc
                [] f.status = "directory" ->
                     /\ mpc' = "finished"
                     /\ UNCHANGED qpc
    /\ UNCHANGED <<command, queries, qi, executed, qlog, chunkerVars, trackerVars, indexVars>>

\* the default pipeline after processUserQueries: an error it throws is
\* caught by the same catch, which runs the default query
AfterUserQueries ==
    /\ mpc = "processUserQueries"
    /\ command = ""
    /\ \/ qpc = "returned" /\ mpc' = "finished"
       \/ qpc = "thrown" /\ mpc' = "saveContextToFile"
    /\ UNCHANGED <<command, chunkerVars, trackerVars, indexVars, queryVars>>

\* await queryProcessor.saveContextToFile(defaultQuery, 5): an error it
\* throws ends main by process.exit(1)
RunDefaultQuery ==
    /\ mpc = "saveContextToFile"
    /\ \E saved_ok \in BOOLEAN :
           /\ executed' = Append(executed, [entry |-> defaultQuery, ok |-> saved_ok])
           /\ mpc' = IF saved_ok THEN "finished" ELSE "exit1"
    /\ UNCHANGED <<command, qfile, queries, qi, qpc, qlog, chunkerVars, trackerVars, indexVars>>

MainNext ==
    \/ Next
    \/ SaveChunksToJson
    \/ CreateCollection
    \/ EmbedBatch
    \/ UpsertBatch
    \/ ChunkAndSave
    \/ ReadQueriesFile
    \/ ProcessQuery
    \/ CompleteQueries
    \/ StatQueriesFile
    \/ AfterUserQueries
    \/ RunDefaultQuery
    \/ MainEnd

MainSpec == MainInit /\ [][MainNext]_vars

-----------------------------------------------------------------------------
(* The position tracker called on its own: getLineNumber and               *)
(* getColumnNumber applied to any offset 0..length of any text, texts that *)
(* begin with a newline and texts with carriage returns included.          *)

MaxTextLen == 4    \* code units in a text handed to the tracker

TrackerLexemes == {"nl", "cr", "stmt"}

TrackerTexts == SeqsUpTo(TrackerLexemes, MaxTextLen)

TrackerInit ==
    /\ text \in TrackerTexts
    /\ located = <<>>
    /\ ChunkerIdle
    /\ IndexIdle
    /\ QueryIdle
    /\ MainIdle

\* getLineNumber(text, index) and getColumnNumber(text, index)
Locate ==
    /\ \E index \in (0..Len(text)) \ DOMAIN located :
           located' = located @@ (index :> [line   |-> getLineNumber(text, index),
                                            column |-> getColumnNumber(text, index)])
    /\ UNCHANGED <<text, chunkerVars, indexVars, queryVars, mainVars>>

TrackerNext == Locate

TrackerSpec == TrackerInit /\ [][TrackerNext]_vars

-----------------------------------------------------------------------------
(* The vocabulary of the properties.                                       *)

\* the calls made so far, the running one included: the text, the path, the
\* chunks pushed and the history of their matches
Finished == {calls[i] : i \in 1..Len(calls)}

Runs ==
    Finished \cup
    (IF pc # "idle"
     THEN {[code |-> curCode, path |-> curPath, result |-> chunks, matches |-> matches]}
     ELSE {})

Indices(c) == 1..Len(c.result)

TypeOf(c, k) == c.result[k].metadata.type

\* offsets in the file: of the match, of the chunk's own text, of the end of
\* the match, of the { of the body
AbsIndex(c, k) == c.matches[k].base + c.matches[k].index

AbsStart(c, k) == c.matches[k].base + c.matches[k].start

AbsEnd(c, k) == c.matches[k].base + c.matches[k].index + c.matches[k].len

AbsOpen(c, k) == c.matches[k].base + c.matches[k].open

HasBlock(c, k) == c.matches[k].open # -1

\* the offset one past the } that closes a block, counting nested pairs with
\* n the number of blocks open inside it at i; -1 when the text ends first
RECURSIVE CloseOf(_, _, _)
CloseOf(code, i, n) ==
    IF i >= Len(code) THEN -1
    ELSE IF At(code, i) = "lb" THEN CloseOf(code, i + 1, n + 1)
    ELSE IF At(code, i) = "rb"
         THEN IF n = 0 THEN i + 1 ELSE CloseOf(code, i + 1, n - 1)
    ELSE CloseOf(code, i + 1, n)

\* the offset one past the } that matches the { at offset open, or -1
MatchingClose(code, open) == CloseOf(code, open + 1, 0)

Balanced(code, open) == open # -1 /\ MatchingClose(code, open) # -1

Count(code, from, to, t) == Cardinality({i \in from..to : At(code, i) = t})

\* how many levels of brace blocks are nested inside the block opened at open
NestingIn(code, open) ==
    LET e == MatchingClose(code, open)
        D == {Count(code, open + 1, i, "lb") - Count(code, open + 1, i, "rb") :
                i \in {j \in (open + 1)..(e - 2) : At(code, j) = "lb"}}
    IN  IF D = {} THEN 0 ELSE Max(D)

\* the offset lies inside the block of a service whose braces are balanced
InsideServiceBlock(code, off) ==
    \E s \in 0..(off - 1) :
        /\ HasService(At(code, s))
        /\ LET o == NextOpen(code, s + 1)
           IN  Balanced(code, o) /\ o < off /\ off < MatchingClose(code, o)

\* every { of the text is closed
AllClosed(code) ==
    \A o \in 0..(Len(code) - 1) : At(code, o) = "lb" => Balanced(code, o)

-----------------------------------------------------------------------------
(* C1: the list chunkBallerinaCode builds is ordered by kind (imports,     *)
(* configurable variables, module variables, type definitions, functions,  *)
(* services with their resources, classes, constants) and, within a kind,  *)
(* by increasing offset of the matches in the source, the resources of a   *)
(* service from left to right inside that service.                         *)

KindRank(type) ==
    CASE type = "import"                -> 1
      [] type = "configurable_variable" -> 2
      [] type = "module_variable"       -> 3
      [] type = "type_definition"       -> 4
      [] type = "function"              -> 5
      [] type \in {"service", "resource"} -> 6
      [] type = "class"                 -> 7
      [] type = "constant"              -> 8
      [] OTHER                          -> 0

EmissionOrder ==
    \A c \in Finished : \A i, j \in Indices(c) :
        i < j =>
            /\ KindRank(TypeOf(c, i)) <= KindRank(TypeOf(c, j))
            /\ KindRank(TypeOf(c, i)) = KindRank(TypeOf(c, j))
                   => AbsIndex(c, i) < AbsIndex(c, j)

\* a call has returned a function, then a service and two resources of it
EmissionOrderWitness ==
    \E c \in Finished : \E i \in Indices(c) :
        /\ i + 3 <= Len(c.result)
        /\ TypeOf(c, i) = "function"
        /\ TypeOf(c, i + 1) = "service"
        /\ TypeOf(c, i + 2) = "resource"
        /\ TypeOf(c, i + 3) = "resource"
        /\ AbsIndex(c, i + 1) < AbsIndex(c, i)

-----------------------------------------------------------------------------
(* C2: a function that is lexically inside a service block is never        *)
(* emitted as a standalone function chunk, wherever in the service body it *)
(* stands.                                                                 *)

NoStandaloneFunctionInsideService ==
    \A c \in Runs : \A k \in Indices(c) :
        TypeOf(c, k) = "function" => ~InsideServiceBlock(c.code, AbsStart(c, k))

-----------------------------------------------------------------------------
(* C3: each resource chunk is preceded in the list by a service chunk of   *)
(* the same file whose path is the resource's servicePath, with nothing    *)
(* but resource chunks between the two (no other service, no class).       *)

ResourceFollowsItsService ==
    \A c \in Finished : \A j \in Indices(c) :
        TypeOf(c, j) = "resource" =>
            \E i \in 1..(j - 1) :
                /\ TypeOf(c, i) = "service"
                /\ c.result[i].metadata.file = c.result[j].metadata.file
                /\ c.result[i].metadata.path = c.result[j].metadata.servicePath
                /\ \A k \in (i + 1)..(j - 1) : TypeOf(c, k) = "resource"

\* a call has returned two services with different paths, each followed by
\* a resource of its own
ResourceFollowsItsServiceWitness ==
    \E c \in Finished : \E i \in Indices(c) :
        /\ i + 3 <= Len(c.result)
        /\ TypeOf(c, i) = "service"
        /\ TypeOf(c, i + 1) = "resource"
        /\ TypeOf(c, i + 2) = "service"
        /\ TypeOf(c, i + 3) = "resource"
        /\ c.result[i].metadata.path # c.result[i + 2].metadata.path
        /\ c.result[i + 3].metadata.servicePath = c.result[i + 2].metadata.path

-----------------------------------------------------------------------------
(* C4: for every chunk of every kind, resources found inside a service     *)
(* body included, position.start is the line and column, in the text of    *)
(* the file, of the offset where the chunk's construct begins, and         *)
(* position.end those of the offset one past its end.                      *)
(* The construct is taken to begin where its match begins in the file, so  *)
(* that blanks in front of an indented function count as part of it.       *)

\* the 1-based line and column of an offset of the text
LineOf(code, off) == 1 + Count(code, 0, off - 1, "nl")

ColumnOf(code, off) ==
    off - Max({-1} \cup {i \in 0..(off - 1) : At(code, i) = "nl"})

PositionsAreFileOffsets ==
    \A c \in Runs : \A k \in Indices(c) :
        /\ c.result[k].metadata.position.start =
              [line   |-> LineOf(c.code, AbsIndex(c, k)),
               column |-> ColumnOf(c.code, AbsIndex(c, k))]
        /\ c.result[k].metadata.position["end"] =
              [line   |-> LineOf(c.code, AbsEnd(c, k)),
               column |-> ColumnOf(c.code, AbsEnd(c, k))]

-----------------------------------------------------------------------------
(* C5: chunkBallerinaCode is deterministic and stateless: two calls with   *)
(* the same text and path return equal chunk sequences whatever was        *)
(* chunked in between, and the chunks of a run over several files are the  *)
(* results of the calls concatenated in the order of the files.            *)

ResultsOf(n) == Concat([i \in 1..n |-> calls[i].result])

ChunkingIsStateless ==
    /\ \A i, j \in 1..Len(calls) :
           (calls[i].code = calls[j].code /\ calls[i].path = calls[j].path)
               => calls[i].result = calls[j].result
    /\ \A i \in 1..Len(calls) :
           calls[i].code = files[i].code /\ calls[i].path = files[i].path
    /\ allChunks = ResultsOf(Len(calls))

\* the first and the third file of a run have the same text and path, a
\* different text was chunked in between, and every call returned chunks
ChunkingIsStatelessWitness ==
    /\ Len(calls) >= 3
    /\ calls[1].code = calls[3].code
    /\ calls[1].path = calls[3].path
    /\ calls[2].code # calls[1].code
    /\ \A i \in 1..3 : calls[i].result # <<>>
    /\ Len(allChunks) = Len(calls[1].result) + Len(calls[2].result) + Len(calls[3].result)

-----------------------------------------------------------------------------
(* C6: every function match and every resource match yields exactly two    *)
(* chunks, a signature chunk and a body chunk, which carry the same        *)
(* position and differ in kind only.                                       *)

IsFunctionOrResource(c, k) ==
    TypeOf(c, k) \in {"function", "function_signature", "function_body",
                      "resource", "resource_signature", "resource_body"}

ChunksOfMatch(c, k) ==
    {j \in Indices(c) : IsFunctionOrResource(c, j) /\ c.matches[j] = c.matches[k]}

SignatureAndBodyChunks ==
    \A c \in Finished : \A k \in Indices(c) :
        IsFunctionOrResource(c, k) =>
            /\ Cardinality(ChunksOfMatch(c, k)) = 2
            /\ \E sig, body \in ChunksOfMatch(c, k) :
                   /\ TypeOf(c, sig) \in {"function_signature", "resource_signature"}
                   /\ TypeOf(c, body) \in {"function_body", "resource_body"}
                   /\ c.result[sig].metadata.position = c.result[body].metadata.position

-----------------------------------------------------------------------------
(* C7: every chunk carries an id that is a function of (file, kind, name,  *)
(* start line) only: equal tuples give equal ids, different tuples give    *)
(* different ids.                                                          *)

\* chunk.metadata.id, "undefined" when the property is not there
IdOf(chunk) ==
    IF "id" \in DOMAIN chunk.metadata THEN chunk.metadata["id"] ELSE "undefined"

NameOf(chunk) ==
    IF "name" \in DOMAIN chunk.metadata THEN chunk.metadata.name ELSE "undefined"

IdTuple(chunk) ==
    <<chunk.metadata.file, chunk.metadata.type, NameOf(chunk), chunk.metadata.line>>

AllChunksOfRuns == UNION {{c.result[k] : k \in Indices(c)} : c \in Runs}

ChunkIdsAreStable ==
    \A x, y \in AllChunksOfRuns :
        /\ IdOf(x) # "undefined"
        /\ IdTuple(x) = IdTuple(y) <=> IdOf(x) = IdOf(y)

-----------------------------------------------------------------------------
(* C8: for a function, service or resource whose braces are balanced and   *)
(* whose body nests brace blocks at most two levels deep, the block        *)
(* captured for the chunk ends exactly at the } that matches the { of the  *)
(* body: the capture is the complete body, neither cut at an inner } nor   *)
(* run past the matching one.                                              *)

\* the body the pattern captured for chunk k: the text between the { of the
\* body and the last } of the match
CapturedBody(c, k) == Slice(c.code, AbsOpen(c, k) + 1, AbsEnd(c, k) - 1)

\* the complete body of the block opened at open
CompleteBody(code, open) == Slice(code, open + 1, MatchingClose(code, open) - 1)

CapturedBlockEndsAtMatchingBrace ==
    \A c \in Finished : \A k \in Indices(c) :
        (/\ HasBlock(c, k)
         /\ Balanced(c.code, AbsOpen(c, k))
         /\ NestingIn(c.code, AbsOpen(c, k)) <= 2)
            => /\ AbsEnd(c, k) = MatchingClose(c.code, AbsOpen(c, k))
               /\ CapturedBody(c, k) = CompleteBody(c.code, AbsOpen(c, k))
               /\ TypeOf(c, k) = "function"
                      => c.result[k].content = Slice(c.code, AbsStart(c, k), AbsEnd(c, k))

\* a call has returned a function whose body nests two levels and a service
\* whose resource nests one level (two levels inside the service)
CapturedBlockEndsAtMatchingBraceWitness ==
    \E c \in Finished : \E f, v, r \in Indices(c) :
        /\ TypeOf(c, f) = "function"
        /\ NestingIn(c.code, AbsOpen(c, f)) = 2
        /\ TypeOf(c, v) = "service"
        /\ NestingIn(c.code, AbsOpen(c, v)) = 2
        /\ TypeOf(c, r) = "resource"
        /\ NestingIn(c.code, AbsOpen(c, r)) = 1
        /\ AbsEnd(c, f) = MatchingClose(c.code, AbsOpen(c, f))

-----------------------------------------------------------------------------
(* C9: block matching at any nesting depth.  As claimed: every function,   *)
(* service and resource with balanced braces is emitted with its complete  *)
(* body however deep the brace blocks inside that body are nested.         *)

\* the constructs of a text, by the offset of their keyword and of their {
ServiceSites(code) ==
    {[at |-> p, open |-> NextOpen(code, p + 1)] :
        p \in {q \in 0..(Len(code) - 1) : HasService(At(code, q))}}

FunctionSites(code) ==
    {[at |-> p, open |-> BodyOpen(code, p + 1)] :
        p \in {q \in 0..(Len(code) - 1) :
                 IsFunctionHeader(At(code, q)) /\ ~InsideServiceBlock(code, q)}}

ResourceSites(code) ==
    {[at |-> p, open |-> BodyOpen(code, SkipSpace(code, p + 1) + 1)] :
        p \in {q \in 0..(Len(code) - 1) :
                 At(code, q) = "res" /\ InsideServiceBlock(code, q)}}

\* a chunk of the kind was emitted for the construct: its block is the
\* block of the construct, whole
EmittedWhole(c, kind, site) ==
    \E k \in Indices(c) :
        /\ TypeOf(c, k) = kind
        /\ AbsOpen(c, k) = site.open
        /\ AbsIndex(c, k) <= site.at
        /\ AbsEnd(c, k) = MatchingClose(c.code, site.open)

\* no chunk of the kind was emitted for the construct
NotEmitted(c, kind, site) ==
    \A k \in Indices(c) : TypeOf(c, k) = kind => AbsOpen(c, k) # site.open

\* the block of the resource's service nests at most n levels
ServiceNestsAtMost(code, site, n) ==
    \E v \in ServiceSites(code) :
        /\ Balanced(code, v.open)
        /\ v.open < site.at
        /\ site.at < MatchingClose(code, v.open)
        /\ NestingIn(code, v.open) <= n

\* the start of the line of an offset
LineStartOf(code, off) == Max({0} \cup {i + 1 : i \in {j \in 0..(off - 1) : At(code, j) = "nl"}})

\* in the text before the line of the function, the last "service" comes
\* after the last }
AfterOpenService(code, site) ==
    LET q == LineStartOf(code, site.at)
        S == {i \in 0..(q - 1) : At(code, i) \in ServiceWordLexemes}
        R == {i \in 0..(q - 1) : At(code, i) = "rb"}
    IN  S # {} /\ \A r \in R : r < Max(S)

\* the scope test of the function loop lets the function pass
ScopeTestAccepts(code, site) == ~AfterOpenService(code, site)

BlockMatchingAtAnyDepth ==
    \A c \in Finished :
        AllClosed(c.code) =>
            /\ \A v \in ServiceSites(c.code) : EmittedWhole(c, "service", v)
            /\ \A f \in FunctionSites(c.code) : EmittedWhole(c, "function", f)
            /\ \A r \in ResourceSites(c.code) : EmittedWhole(c, "resource", r)

\* the body pattern matches from a { exactly when the block it opens is
\* closed and nests at most two levels, and then up to the matching }
BodyPatternExactToTwoLevels(code) ==
    \A o \in {i \in 0..(Len(code) - 1) : At(code, i) = "lb"} :
        IF Balanced(code, o) /\ NestingIn(code, o) <= 2
        THEN BlockEnd(code, o) = MatchingClose(code, o)
        ELSE BlockEnd(code, o) = -1

(* C9 as amended: block matching is exact up to two levels of nesting and  *)
(* no further.  The body pattern matches from a { exactly when its block   *)
(* is closed and nests at most two levels, and then up to the matching }.  *)
(* Every emitted function, service or resource chunk holds a               *)
(* block that ends at the } matching its { and nests at most two levels.   *)
(* In a text whose braces are all closed, a service or a function outside  *)
(* services whose body nests at most two levels is emitted with its        *)
(* complete body, and so is a resource of a service whose body nests at    *)
(* most two levels; a service or function whose body nests three levels or *)
(* more is not emitted, and neither are the resources of such a service.   *)
BlockMatchingUpToTwoLevels ==
    /\ \A c \in Finished : BodyPatternExactToTwoLevels(c.code)
    /\ \A c \in Finished : \A k \in Indices(c) :
           HasBlock(c, k) =>
               /\ AbsEnd(c, k) = MatchingClose(c.code, AbsOpen(c, k))
               /\ NestingIn(c.code, AbsOpen(c, k)) <= 2
    /\ \A c \in Finished :
           AllClosed(c.code) =>
               /\ \A v \in ServiceSites(c.code) :
                      IF NestingIn(c.code, v.open) <= 2
                      THEN EmittedWhole(c, "service", v)
                      ELSE NotEmitted(c, "service", v)
               /\ \A f \in FunctionSites(c.code) :
                      IF NestingIn(c.code, f.open) <= 2 /\ ScopeTestAccepts(c.code, f)
                      THEN EmittedWhole(c, "function", f)
                      ELSE NotEmitted(c, "function", f)
               /\ \A r \in ResourceSites(c.code) :
                      IF ServiceNestsAtMost(c.code, r, 2)
                      THEN EmittedWhole(c, "resource", r)
                      ELSE NotEmitted(c, "resource", r)

\* a call has returned the chunks of a text that holds a function nesting
\* two levels, emitted, and a service with a resource nesting two levels
\* (three inside the service), neither of them emitted
BlockMatchingUpToTwoLevelsWitness ==
    \E c \in Finished :
        /\ AllClosed(c.code)
        /\ \E f \in FunctionSites(c.code) :
               NestingIn(c.code, f.open) = 2 /\ EmittedWhole(c, "function", f)
        /\ \E v \in ServiceSites(c.code) :
               NestingIn(c.code, v.open) = 3 /\ NotEmitted(c, "service", v)
        /\ \E r \in ResourceSites(c.code) :
               NestingIn(c.code, r.open) = 2 /\ NotEmitted(c, "resource", r)

-----------------------------------------------------------------------------
(* C10: a function, service or resource that opens a brace never closed    *)
(* before the end of the text.  As claimed: no chunk is emitted for that   *)
(* construct, the call still returns, and every well-formed construct      *)
(* elsewhere in the text is still emitted as its chunk.  (Well-formed: of  *)
(* a body that is closed and nests at most two levels.)                    *)

WellFormed(code, site) == Balanced(code, site.open) /\ NestingIn(code, site.open) <= 2

Unclosed(code, site) == site.open # -1 /\ ~Balanced(code, site.open)

HasUnclosedConstruct(code) ==
    \E site \in ServiceSites(code) \cup FunctionSites(code) : Unclosed(code, site)

\* the kinds of chunk a declaration without a body pattern is emitted as
KindsOfDeclaration(t) ==
    CASE t = "imp"  -> {"import"}
      [] t = "cfg"  -> {"configurable_variable"}
      [] t = "var"  -> {"module_variable"}
      [] t = "fvar" -> {"module_variable", "constant"}
      [] t \in {"typ", "trec"} -> {"type_definition"}
      [] t = "cls"  -> {"class"}
      [] OTHER      -> {}

DeclarationsEmitted(c) ==
    \A p \in 0..(Len(c.code) - 1) : \A kind \in KindsOfDeclaration(At(c.code, p)) :
        \E k \in Indices(c) :
            TypeOf(c, k) = kind /\ AbsIndex(c, k) <= p /\ p < AbsEnd(c, k)

\* no chunk is emitted for a construct that is not closed, nor for a
\* resource of a service that is not closed
UnclosedNotEmitted(c) ==
    /\ \A k \in Indices(c) : HasBlock(c, k) => Balanced(c.code, AbsOpen(c, k))
    /\ \A k \in Indices(c) :
           TypeOf(c, k) = "resource" => InsideServiceBlock(c.code, AbsIndex(c, k))

ServicesAndResourcesEmitted(c) ==
    /\ \A v \in ServiceSites(c.code) :
           WellFormed(c.code, v) => EmittedWhole(c, "service", v)
    /\ \A r \in ResourceSites(c.code) :
           ServiceNestsAtMost(c.code, r, 2) => EmittedWhole(c, "resource", r)

\* the call goes on to its return: it stands in one of the loops, whose
\* step is always possible, and every match moved lastIndex forward, so
\* that no loop runs for ever
CallReturns ==
    /\ pc # "idle" =>
           /\ pc \in {PhaseOrder[i] : i \in 1..Len(PhaseOrder)} \cup {"resource"}
           /\ lastIndex \in 0..Len(curCode)
           /\ resLastIndex \in 0..Len(curCode)
    /\ \A c \in Runs : \A k \in Indices(c) : c.matches[k].len >= 1

-----------------------------------------------------------------------------
(* C11: no source declaration is emitted under two kinds: the chunks of a  *)
(* call that begin at the same offset of the file (the same declaration)   *)
(* have the same kind, so a declaration emitted as a module_variable chunk *)
(* is never also emitted as a constant, configurable_variable,             *)
(* type_definition or any other chunk.                                     *)
NoDeclarationUnderTwoKinds ==
    \A c \in Runs : \A k1, k2 \in Indices(c) :
        AbsStart(c, k1) = AbsStart(c, k2) => TypeOf(c, k1) = TypeOf(c, k2)

-----------------------------------------------------------------------------
(* C12: the position tracker is monotonic: for every text and all offsets  *)
(* a < b within 0..length, the pair (getLineNumber, getColumnNumber) at b  *)
(* is not lexicographically before the pair at a.                          *)

LexBefore(p, q) == p.line < q.line \/ (p.line = q.line /\ p.column < q.column)

PositionTrackerMonotonic ==
    \A a, b \in DOMAIN located : a < b => ~LexBefore(located[b], located[a])

\* the tracker was asked for two offsets of one line and for two offsets on
\* either side of a newline, in a text that begins with a newline
PositionTrackerMonotonicWitness ==
    /\ At(text, 0) = "nl"
    /\ {0, 1} \subseteq DOMAIN located
    /\ \E a, b \in DOMAIN located :
           a < b /\ located[a].line = located[b].line /\ located[a].column < located[b].column
    /\ \E a, b \in DOMAIN located : a < b /\ located[a].line < located[b].line

-----------------------------------------------------------------------------
(* C13: for every text and every offset with 0 <= offset <= length, the    *)
(* position tracker returns line >= 1 and column >= 1, the column being    *)
(* the 1-based distance from the preceding newline (an offset at the start *)
(* of a line has column 1), including offset 0 of a text whose first       *)
(* character is a newline.                                                 *)
PositionsAreOneBased ==
    \A o \in DOMAIN located :
        /\ located[o].line >= 1
        /\ located[o].column >= 1
        /\ located[o].column = o - LineStartOf(text, o) + 1

-----------------------------------------------------------------------------
(* C14: for every emitted chunk, the position lies within its source file: *)
(* 1 <= start.line <= end.line <= number of lines of the text, both        *)
(* (line, column) pairs denote offsets between 0 and the text length, and  *)
(* the start is not after the end.                                         *)

NumberOfLines(code) == 1 + Count(code, 0, Len(code) - 1, "nl")

\* the 1-based line and column of an offset of the text
PairOf(code, off) ==
    [line   |-> 1 + Count(code, 0, off - 1, "nl"),
     column |-> off - LineStartOf(code, off) + 1]

PositionsWithinFile ==
    \A c \in Runs : \A k \in Indices(c) :
        LET pos == c.result[k].metadata.position
        IN  /\ 1 <= pos.start.line
            /\ pos.start.line <= pos.end.line
            /\ pos.end.line <= NumberOfLines(c.code)
            /\ \E a, b \in 0..Len(c.code) :
                   /\ a <= b
                   /\ PairOf(c.code, a) = pos.start
                   /\ PairOf(c.code, b) = pos.end

-----------------------------------------------------------------------------
(* C15: with maxChunkLength = N, no emitted chunk has content longer than  *)
(* N: a body longer than N is split into consecutive, non-overlapping      *)
(* parts of at most N characters, numbered from 1, that share the original *)
(* chunk's id and kind and whose concatenation in order reproduces the     *)
(* original body exactly.                                                  *)

\* the configured maximum N, in the code units of the model (the README
\* names 5000 characters; the texts of the model are shorter)
maxChunkLength == 4

ContentWithinMaxChunkLength ==
    \A c \in Runs : \A k \in Indices(c) : Len(c.result[k].content) <= maxChunkLength

-----------------------------------------------------------------------------
(* C16: deduplication is first-seen-wins and stable: over the concatenated *)
(* chunk stream, for each distinct content hash exactly the first chunk    *)
(* with that content is kept and later chunks with identical content are   *)
(* dropped, the kept chunks staying in input order; two files with         *)
(* byte-identical function bodies contribute exactly one body chunk to     *)
(* what is indexed.                                                        *)

\* the stream less every chunk whose content came earlier in it
RECURSIVE FirstSeen(_)
FirstSeen(stream) ==
    IF stream = <<>> THEN <<>>
    ELSE LET front == SubSeq(stream, 1, Len(stream) - 1)
             x     == stream[Len(stream)]
         IN  IF \E j \in 1..Len(front) : front[j].content = x.content
             THEN FirstSeen(front)
             ELSE Append(FirstSeen(front), x)

\* indexChunks has completed and the collection holds the chunks kept, in
\* their order
IndexedFirstSeenOnly ==
    ipc = "done" =>
        LET kept == FirstSeen(allChunks)
        IN  /\ DOMAIN points = 1..Len(kept)
            /\ \A i \in 1..Len(kept) :
                   /\ points[i].payload.content = kept[i].content
                   /\ points[i].payload.metadata = kept[i].metadata

-----------------------------------------------------------------------------
(* C17: the chunk list is append-only and chunks are immutable: once a     *)
(* chunk has been pushed at index i, it stays at index i with unchanged    *)
(* content and metadata through the rest of chunkBallerinaCode and through *)
(* every later step of the pipeline (saveChunksToJson,                     *)
(* prepareTextForEmbedding, upsertChunks).                                 *)

IsPrefix(s, t) == Len(s) <= Len(t) /\ SubSeq(t, 1, Len(s)) = s

\* what was written to the JSON file and to the collection is the chunks as
\* they were pushed
ChunksAsPushed ==
    /\ \A i \in 1..Len(saved) : saved[i].chunks = allChunks
    /\ \A id \in DOMAIN points :
           /\ id \in 1..Len(allChunks)
           /\ points[id].payload.content = allChunks[id].content
           /\ points[id].payload.metadata = allChunks[id].metadata

ChunksAppendOnlyAndImmutable ==
    [][/\ pc # "idle" => IsPrefix(chunks, chunks')
       /\ IsPrefix(allChunks, allChunks')
       /\ IsPrefix(calls, calls')
       /\ pc = "return" => IsPrefix(allChunks \o chunks, allChunks')
       /\ ChunksAsPushed']_vars

\* two calls have returned chunks and indexChunks has saved, embedded and
\* upserted all of them
ChunksAppendOnlyAndImmutableWitness ==
    /\ ipc = "done"
    /\ Len(calls) >= 2
    /\ \A i \in 1..Len(calls) : Len(calls[i].result) >= 2
    /\ saved # <<>>
    /\ DOMAIN points = 1..Len(allChunks)

-----------------------------------------------------------------------------
(* C18: for every input string, chunkBallerinaCode terminates and returns  *)
(* a (possibly empty) list without throwing: each of its regex scan loops  *)
(* consumes at least one character per match, so it always reaches the end *)
(* of the text, and a missing optional sub-field (an absent return type,   *)
(* replaced by "void") never causes a failure.                             *)

\* a round of a scan loop that found a match leaves lastIndex further right,
\* and never past the end of the string searched
MatchConsumes ==
    /\ (pc \notin {"idle", "resource"} /\ pc' \in {pc, "resource"}) =>
           /\ lastIndex' > lastIndex
           /\ lastIndex' <= Len(curCode)
    /\ (pc = "resource" /\ pc' = "resource") =>
           /\ resLastIndex' > resLastIndex
           /\ resLastIndex' <= Len(ServiceBodyOf(curCode, curService))

\* a function or resource without a returns clause gets the return type
\* "void", one with a returns clause the type it names
ReturnTypeDefaults ==
    \A c \in Runs : \A k \in Indices(c) :
        TypeOf(c, k) \in {"function", "resource"} =>
            LET declared == \E i \in AbsStart(c, k)..AbsOpen(c, k) : At(c.code, i) = "ret"
                rt == c.result[k].metadata.returnType
            IN  IF declared THEN rt # <<>> /\ rt # <<"void">> ELSE rt = <<"void">>

ChunkerTerminates ==
    /\ [][MatchConsumes]_vars
    /\ []ReturnTypeDefaults
    /\ \A n \in 1..MaxFiles :
           (pc # "idle" /\ fileIdx = n) ~> (pc = "idle" /\ Len(calls) = n)

\* a call has returned after several matches, with a function without a
\* returns clause, whose return type is "void", and one with a returns clause
ChunkerTerminatesWitness ==
    \E c \in Finished :
        /\ \E k \in Indices(c) :
               TypeOf(c, k) = "function" /\ c.result[k].metadata.returnType = <<"void">>
        /\ \E k \in Indices(c) :
               TypeOf(c, k) = "function" /\ c.result[k].metadata.returnType # <<"void">>


-----------------------------------------------------------------------------
(* The queries file that is no JSON.                                       *)

\* the content of the queries file is a file that JSON.parse rejects
MalformedJson == qfile.status = "file" /\ ~JSONparse(qfile.content).ok

\* the lines of the text, by the offsets of their line ends
LineEnds(code) == {i \in 1..Len(code) : code[i] = "nl"} \cup {Len(code) + 1}

LineBefore(code, e) ==
    LET b == Max({0} \cup {j \in LineEnds(code) : j < e})
    IN  SubSeq(code, b + 1, e - 1)

\* the queries a text holds: its lines without the blanks around them, the
\* empty lines and the lines that begin with # left out, in file order
QueryLines(code) ==
    LET Kept == {e \in LineEnds(code) :
                    LET l == Trim(LineBefore(code, e)) IN l # <<>> /\ l[1] # "hash"}
        Nth(n) == CHOOSE e \in Kept : Cardinality({d \in Kept : d <= e}) = n
    IN  [n \in 1..Cardinality(Kept) |-> Trim(LineBefore(code, Nth(n)))]

\* C19 as stated: when the content of the queries file is malformed JSON,
\* processUserQueries reports the error to its caller and executes no query
\* taken from that file
MalformedJsonAborts ==
    (MalformedJson /\ qpc # "start") => (qpc = "thrown" /\ executed = <<>>)

\* C19: when the content of the queries file is malformed JSON,
\* processUserQueries reports no error to its caller: the content is read as
\* text, one query per line, and the queries executed are, in file order, the
\* lines of the file without the blanks around them, empty lines and lines
\* beginning with # left out, numbered from 1; all of them have been executed
\* when the call returns
MalformedJsonReadAsText ==
    (MalformedJson /\ qpc # "start") =>
        LET expected == QueryLines(qfile.content)
        IN  /\ qpc # "thrown"
            /\ Len(executed) <= Len(expected)
            /\ \A n \in 1..Len(executed) :
                   executed[n].entry = [id |-> n, query |-> expected[n]]
            /\ qpc = "returned" => Len(executed) = Len(expected)

\* a call has returned after executing two or more lines of a file that is
\* malformed JSON
MalformedJsonReadAsTextWitness ==
    /\ MalformedJson
    /\ qpc = "returned"
    /\ Len(executed) >= 2

-----------------------------------------------------------------------------
(* The queries of a JSON file are all attempted.                           *)

\* the queries file is a JSON array whose first item has an id and a query
JsonQueriesFile ==
    /\ qfile.status = "file"
    /\ LET parsed == JSONparse(qfile.content)
       IN  /\ parsed.ok
           /\ parsed.array
           /\ parsed.items # <<>>
           /\ parsed.items[1] \in {"oA", "oB"}

\* the query strings of the items of the array, in file order
HasQuery(t) == t \in {"oA", "oB", "oNoId"}

FileQueries ==
    LET withQuery == SelectSeq(JSONparse(qfile.content).items, HasQuery)
    IN  [n \in 1..Len(withQuery) |-> ItemOf(withQuery[n]).query]

\* C20: every query of the file is attempted, in file order: when
\* processUserQueries has ended, with a return or with an error, on a JSON
\* file of n items, the queries executed are the queries of all the items
\* that have one, whatever failed at an item before them
EveryQueryAttempted ==
    (JsonQueriesFile /\ qpc \in {"returned", "thrown"}) =>
        [n \in 1..Len(executed) |-> executed[n].entry.query] = FileQueries


-----------------------------------------------------------------------------
(* The default pipeline.                                                   *)

\* the default query has been handed to saveContextToFile
DefaultQueryRan == \E n \in 1..Len(executed) : executed[n].entry = defaultQuery

\* processUserQueries has been called
UserQueriesProcessed == qpc # "idle"

\* C21: in the default pipeline (no command) indexing completes first; then
\* the queries of user_queries.txt are processed if that file exists, and the
\* default query is run when, and only when, no queries file is found; in
\* every run that ends after the indexing, exactly one of the two has happened
DefaultPipelineQueriesOrDefault ==
    command = "" =>
        /\ (UserQueriesProcessed \/ DefaultQueryRan) => ipc = "done"
        /\ (ipc = "done" /\ mpc \in {"finished", "exit1"}) =>
               /\ UserQueriesProcessed <=> qfile.status = "file"
               /\ DefaultQueryRan <=> qfile.status # "file"
               /\ UserQueriesProcessed # DefaultQueryRan


-----------------------------------------------------------------------------
(* The chunk command.                                                      *)

\* C22: the chunk command (chunkAndSave) only chunks and saves: in every run
\* it sends no embedding request, creates no collection and upserts no point,
\* and runs no query; its only effect outside memory is the writing of one
\* chunks JSON file, which holds the chunks of the run when the command ends
ChunkCommandOnlySaves ==
    command = "chunk" =>
        /\ \A n \in 1..Len(io) : io[n].op = "writeFile"
        /\ Len(io) <= 1
        /\ ~collectionExists
        /\ points = <<>>
        /\ pending = NoBatch
        /\ executed = <<>>
        /\ mpc # "exit1"
        /\ mpc = "finished" =>
               /\ Len(io) = 1
               /\ saved = <<[totalChunks |-> Len(allChunks), chunks |-> allChunks]>>

\* the chunk command has ended after writing a file of several chunks
ChunkCommandOnlySavesWitness ==
    /\ command = "chunk"
    /\ mpc = "finished"
    /\ Len(saved) = 1
    /\ saved[1].totalChunks >= 2


-----------------------------------------------------------------------------
(* The batches of indexChunks.                                             *)

IsEmbeddingsRequest(e) == e.op = "embeddings"

\* the embeddings requests of the run so far, in order
EmbeddingsRequests == SelectSeq(io, IsEmbeddingsRequest)

\* the number of embeddings requests among the first n events
RequestsUpTo(n) == Len(SelectSeq(SubSeq(io, 1, n), IsEmbeddingsRequest))

\* C23: indexChunks sends the chunks to the embeddings service in
\* consecutive batches of at most 10 chunks, in chunk order, the batches
\* covering every chunk exactly once when the run completes; the upsert of a
\* batch comes right after the request for that batch's embeddings and
\* writes points of that batch only, and the collection has been looked up
\* and exists before the first upsert
BatchesOfTenInOrder ==
    LET requests == EmbeddingsRequests
        sent     == Concat([k \in 1..Len(requests) |-> requests[k].input])
        all      == [i \in 1..Len(allChunks) |-> prepareTextForEmbedding(allChunks[i])]
    IN  /\ \A k \in 1..Len(requests) : Len(requests[k].input) \in 1..10
        /\ IsPrefix(sent, all)
        /\ ipc = "done" => sent = all
        /\ \A n \in 1..Len(io) :
               io[n].op = "upsert" =>
                   /\ n > 1
                   /\ io[n - 1].op = "embeddings"
                   /\ LET before == Concat([k \in 1..(RequestsUpTo(n) - 1) |-> requests[k].input])
                      IN  io[n].ids \subseteq
                              (Len(before) + 1)..(Len(before) + Len(io[n - 1].input))
                   /\ \E m \in 1..(n - 1) : io[m].op = "getCollections"
                   /\ collectionExists

\* a run has completed after two batches, the first of 10 chunks
BatchesOfTenInOrderWitness ==
    /\ ipc = "done"
    /\ Len(EmbeddingsRequests) = 2
    /\ Len(EmbeddingsRequests[1].input) = 10
    /\ Cardinality({n \in 1..Len(io) : io[n].op = "upsert"}) = 2


-----------------------------------------------------------------------------
(* The visibility of functions and classes.                                *)

\* C24: a function or class chunk has visibility "public" exactly when its
\* declaration carries the public modifier, that is when its text begins
\* with public, and "private" otherwise, whatever the body contains
VisibilityFollowsModifier ==
    \A c \in Runs : \A k \in Indices(c) :
        TypeOf(c, k) \in {"function", "class"} =>
            c.result[k].metadata.visibility =
                (IF At(c.code, AbsStart(c, k)) = "pub" THEN "public" ELSE "private")


-----------------------------------------------------------------------------
(* The scope test of the function loop, on functions outside services.     *)

\* C25: in a text whose braces are all closed (its services not nested), a
\* function that lies in no service block and whose body nests at most two
\* levels is never discarded: it is emitted as a function chunk with its
\* whole body, whatever text precedes it
TopLevelFunctionNeverDiscarded ==
    \A c \in Finished :
        AllClosed(c.code) =>
            \A f \in FunctionSites(c.code) :
                NestingIn(c.code, f.open) <= 2 => EmittedWhole(c, "function", f)


-----------------------------------------------------------------------------
(* The blocks of classes and type definitions.                             *)

\* C26: for every class and every type definition that has a brace body the
\* content of the chunk is a balanced block: it ends at the } that matches
\* the { of the body, also when the body holds nested brace blocks
ClassAndTypeBlocksBalanced ==
    \A c \in Runs : \A k \in Indices(c) :
        TypeOf(c, k) \in {"class", "type_definition"} =>
            LET open == NextOpen(c.code, AbsIndex(c, k))
            IN  (open # -1 /\ open < AbsEnd(c, k)) =>
                    AbsEnd(c, k) = MatchingClose(c.code, open)


-----------------------------------------------------------------------------
(* Module variables are top-level declarations.                            *)

\* the offset lies inside a brace block: more { than } come before it
InsideBraces(code, off) == Count(code, 0, off - 1, "lb") > Count(code, 0, off - 1, "rb")

\* C27: module_variable chunks are emitted only for top-level declarations:
\* no module_variable chunk is emitted for a variable declaration that lies
\* inside the braces of a function, resource, service or class body
ModuleVariablesAreTopLevel ==
    \A c \in Runs : \A k \in Indices(c) :
        TypeOf(c, k) = "module_variable" => ~InsideBraces(c.code, AbsEnd(c, k) - 1)


-----------------------------------------------------------------------------
(* Only the user's queries are executed.                                   *)

\* the content of the queries file parses as JSON
ParsesAsJson == qfile.status = "file" /\ JSONparse(qfile.content).ok

\* the items of the array the content parses to, null and objects without a
\* query left out: the user's queries
UserItems ==
    LET parsed == JSONparse(qfile.content)
        kept   == SelectSeq(parsed.items, HasQuery)
    IN  [n \in 1..Len(kept) |-> ItemOf(kept[n])]

\* C28: processUserQueries executes only the user's queries: when the file
\* content parses as JSON and the call has returned, the queries executed
\* are exactly the items of the array that hold a query, in order, each with
\* its own id (no line of raw JSON syntax is executed as a query), and a
\* file that holds no query (such as the empty array) gives the warning
\* "No valid queries found" and no query is executed
OnlyUserQueriesExecuted ==
    (ParsesAsJson /\ qpc = "returned") =>
        /\ [n \in 1..Len(executed) |-> executed[n].entry] = UserItems
        /\ UserItems = <<>> =>
               \E n \in 1..Len(qlog) : qlog[n] = "No valid queries found"


-----------------------------------------------------------------------------
(* The collection after several runs.                                      *)

\* the ids of the points the run has upserted
UpsertedIds == UNION {io[n].ids : n \in {m \in 1..Len(io) : io[m].op = "upsert"}}

\* C29: after any sequence of indexChunks runs against the same collection,
\* the collection holds exactly the points of the most recent run: when a
\* run has completed, every point of the collection was written by it and
\* holds a chunk of the source as that run read it
CollectionHoldsLatestRunOnly ==
    ipc = "done" =>
        /\ DOMAIN points = UpsertedIds
        /\ \A id \in DOMAIN points :
               /\ id \in 1..Len(allChunks)
               /\ points[id].payload.content = allChunks[id].content
               /\ points[id].payload.metadata = allChunks[id].metadata

-----------------------------------------------------------------------------
(* Every chunk has its point.                                              *)

\* C30: when indexChunks completes without error, every chunk produced by
\* the chunking has exactly one point in the collection, with id 1 plus the
\* index of the chunk in the chunk list of the run, and the vector of the
\* point is the embedding computed from the text of that same chunk,
\* whatever well-formed response the embeddings service gave
EveryChunkHasItsPoint ==
    ipc = "done" =>
        /\ DOMAIN points = 1..Len(allChunks)
        /\ \A id \in DOMAIN points :
               /\ points[id].payload.content = allChunks[id].content
               /\ points[id].payload.metadata = allChunks[id].metadata
               /\ points[id].vector = EmbeddingOf(prepareTextForEmbedding(allChunks[id]))

=============================================================================
